---- MODULE Spec2Model ----
(***************************************************************************)
(* A model of the WebSocket server core: the per-connection lifecycle      *)
(* state machine (internal/domain/connection.go) and the frame codec       *)
(* (internal/infrastructure/frame_parser.go, internal/domain/frame.go).    *)
(*                                                                         *)
(* messages (internal/domain/message.go) and the opening handshake         *)
(* (internal/infrastructure/handshake.go).                                 *)
(*                                                                         *)
(* Several specifications share the module's variables, among them:        *)
(*   SpecConn    the connection lifecycle, calls serialized by the caller  *)
(*   SpecRace    TransitionTo called by two goroutines at once             *)
(*   SpecCodec   the frame codec, one frame at a time on a fresh buffer    *)
(*   SpecStream  the frame codec on one stream carrying several frames     *)
(*   SpecMessage a message made into a frame, written and read back        *)
(* Each leaves the other components' variables at their idle values.       *)
(* Lengths are kept below 2^31: the 64-bit length field is decoded and     *)
(* encoded octet by octet, and no length the model uses needs more.        *)
(***************************************************************************)
EXTENDS Integers, Sequences, FiniteSets, TLC

VARIABLES
    conns,          \* the Connection values created so far, by creation order
    now,            \* the wall clock time.Now() reads
    connRes,        \* the last call on a Connection and what it returned
    succeeded,      \* per Connection, the TransitionTo calls that returned nil so far
    maps,           \* the maps make() has allocated, by address: Metadata refers to one
    maxPayloadSize, \* FrameParser.maxPayloadSize
    wire,           \* the octets written to the stream and not yet read
    sent,           \* the frames behind the octets put on the stream, in order
    received,       \* the frames ReadFrame has returned, in order
    desync,         \* a ReadFrame call on this stream has failed
    codecRes,       \* the last codec call and what it returned
    fault,          \* where in the stream the byte source fails, and with which error
    writers,        \* the WriteFrame calls in progress, one per goroutine
    sink,           \* the Write calls the shared sink has taken, in order
    mask,           \* a buffer UnmaskPayload is applied to, and its history
    hs,             \* the handshake in progress: request, response, result
    msgFlow,        \* a Message on its way into a frame, onto the stream and back
    race            \* one Connection and the TransitionTo calls in progress on it

connVars == <<conns, now, connRes, succeeded, maps>>
codecVars == <<maxPayloadSize, wire, sent, received, desync, codecRes>>
sinkVars == <<writers, sink>>
lateVars == <<msgFlow, race>>
auxVars == <<fault, writers, sink, mask, hs, msgFlow, race>>
vars == <<conns, now, connRes, succeeded, maps, maxPayloadSize, wire, sent, received, desync,
          codecRes, fault, writers, sink, mask, hs, msgFlow, race>>

(***************************************************************************)
(* Bounds of the model.                                                    *)
(***************************************************************************)
MaxConns == 2
MaxClock == 1
MaxFrames == 2
MaxBufLen == 5
MaxUnmask == 2
MaxAcceptCalls == 2

(***************************************************************************)
(* Errors.  A Go error is modelled by its sentinel's name (errors.Is) and  *)
(* the words fmt.Errorf wraps around it.                                   *)
(***************************************************************************)
NilError == [kind |-> "nil", msg |-> << >>]
ErrInvalidState == [kind |-> "ErrInvalidState", msg |-> << >>]
ErrInvalidFrameStructure == [kind |-> "ErrInvalidFrameStructure", msg |-> << >>]
ErrInvalidOpcode == [kind |-> "ErrInvalidOpcode", msg |-> << >>]
ErrReservedBitsSet == [kind |-> "ErrReservedBitsSet", msg |-> << >>]
ErrPayloadTooLarge == [kind |-> "ErrPayloadTooLarge", msg |-> << >>]
ErrUnmaskedClientFrame == [kind |-> "ErrUnmaskedClientFrame", msg |-> << >>]
ErrMaskedServerFrame == [kind |-> "ErrMaskedServerFrame", msg |-> << >>]
ErrEOF == [kind |-> "io.EOF", msg |-> << >>]
ErrUnexpectedEOF == [kind |-> "io.ErrUnexpectedEOF", msg |-> << >>]
ErrInvalidMessageType == [kind |-> "ErrInvalidMessageType", msg |-> << >>]
ErrEmptyPayload == [kind |-> "ErrEmptyPayload", msg |-> << >>]
\* an error of the transport under the reader or the writer
ErrClosedPipe == [kind |-> "io.ErrClosedPipe", msg |-> << >>]

\* fmt.Errorf("%w: ...", err, ...): the wrapped sentinel is kept, words added
Wrap(err, words) == [kind |-> err.kind, msg |-> words]

(***************************************************************************)
(* Connection lifecycle (internal/domain/connection.go)                    *)
(***************************************************************************)
StateConnecting == 0
StateOpen == 1
StateClosing == 2
StateClosed == 3
\* a ConnectionState outside the four named ones (the type is an int)
StateUnknown == 99

ConnectionStates == {StateConnecting, StateOpen, StateClosing, StateClosed}
StateArgs == ConnectionStates \cup {StateUnknown}

StateString(s) ==
    CASE s = StateConnecting -> "Connecting"
      [] s = StateOpen -> "Open"
      [] s = StateClosing -> "Closing"
      [] s = StateClosed -> "Closed"
      [] OTHER -> "Unknown(99)"  \* Sprintf("Unknown(%d)"); 99 is the one other value used

\* make(map[string]interface{}): the map at a new address, empty
MakeMap == Append(maps, {})

\* mutant: every connection refers to the map the first one was given
NewConnection_SharedMetadata(id, remoteAddr) ==
    [ID |-> id, RemoteAddr |-> remoteAddr, State |-> StateConnecting,
     LastActivity |-> now, Metadata |-> 1]

\* NewConnection(id, remoteAddr): the Connection made; Metadata is the
\* address of the map make() allocates for it
NewConnection(id, remoteAddr) ==
    [ID |-> id, RemoteAddr |-> remoteAddr, State |-> StateConnecting,
     LastActivity |-> now, Metadata |-> Len(MakeMap)]

\* mutants of CanTransitionTo
CanTransitionTo_SelfLoop(state, newState) ==
    CASE state = StateConnecting -> newState = StateOpen \/ newState = StateClosed
      [] state = StateOpen -> newState = StateOpen \/ newState = StateClosing \/ newState = StateClosed
      [] state = StateClosing -> newState = StateClosed
      [] state = StateClosed -> FALSE
      [] OTHER -> FALSE

CanTransitionTo_Reopen(state, newState) ==
    CASE state = StateConnecting -> newState = StateOpen \/ newState = StateClosed
      [] state = StateOpen -> newState = StateClosing \/ newState = StateClosed
      [] state = StateClosing -> newState = StateClosed
      [] state = StateClosed -> newState = StateOpen
      [] OTHER -> FALSE

\* mutant: a connection still being established cannot be closed
CanTransitionTo_NoAbort(state, newState) ==
    CASE state = StateConnecting -> newState = StateOpen
      [] state = StateOpen -> newState = StateClosing \/ newState = StateClosed
      [] state = StateClosing -> newState = StateClosed
      [] state = StateClosed -> FALSE
      [] OTHER -> FALSE

\* mutant: a Closing connection may be opened again
CanTransitionTo_Backward(state, newState) ==
    CASE state = StateConnecting -> newState = StateOpen \/ newState = StateClosed
      [] state = StateOpen -> newState = StateClosing \/ newState = StateClosed
      [] state = StateClosing -> newState = StateClosed \/ newState = StateOpen
      [] state = StateClosed -> FALSE
      [] OTHER -> FALSE

\* c.CanTransitionTo(newState), c.State = state
CanTransitionTo(state, newState) ==
    CASE state = StateConnecting -> newState = StateOpen \/ newState = StateClosed
      [] state = StateOpen -> newState = StateClosing \/ newState = StateClosed
      [] state = StateClosing -> newState = StateClosed
      [] state = StateClosed -> FALSE
      [] OTHER -> FALSE

\* c.TransitionTo(newState): the connection afterwards and the error returned
TransitionTo(c, newState) ==
    IF ~CanTransitionTo(c.State, newState)
    THEN [conn |-> c,
          err |-> Wrap(ErrInvalidState,
                       <<"cannot transition from", StateString(c.State),
                         "to", StateString(newState)>>)]
    ELSE [conn |-> [c EXCEPT !.State = newState], err |-> NilError]

\* mutant: the assignment is made only if the check still holds
TransitionToSet_Recheck(c, newState) == TransitionTo(c, newState)

\* the second half of TransitionTo, reached when the check has passed:
\* c.State = newState; return nil
TransitionToSet(c, newState) == [conn |-> [c EXCEPT !.State = newState], err |-> NilError]

\* mutant: a closed connection is not stamped any more
UpdateActivity_NotWhenClosed(c) ==
    IF c.State = StateClosed THEN c ELSE [c EXCEPT !.LastActivity = now]

\* c.UpdateActivity(): the connection afterwards
UpdateActivity(c) == [c EXCEPT !.LastActivity = now]

\* m[key] = value on a map: the map afterwards, as its set of entries
MapAssign(m, key, value) ==
    {e \in m : e.key # key} \cup {[key |-> key, value |-> value]}

IsOpen(c) == c.State = StateOpen
IsClosed(c) == c.State = StateClosed
IsClosing(c) == c.State = StateClosing

(***************************************************************************)
(* Octets and the bit operations the codec uses                            *)
(***************************************************************************)
RECURSIVE BitAnd(_, _)
BitAnd(a, b) ==
    IF a = 0 \/ b = 0 THEN 0
    ELSE (a % 2) * (b % 2) + 2 * BitAnd(a \div 2, b \div 2)

RECURSIVE BitOr(_, _)
BitOr(a, b) ==
    IF a = 0 THEN b
    ELSE IF b = 0 THEN a
    ELSE (IF a % 2 = 1 \/ b % 2 = 1 THEN 1 ELSE 0) + 2 * BitOr(a \div 2, b \div 2)

RECURSIVE BitXor(_, _)
BitXor(a, b) ==
    IF a = 0 THEN b
    ELSE IF b = 0 THEN a
    ELSE (((a % 2) + (b % 2)) % 2) + 2 * BitXor(a \div 2, b \div 2)

\* a ^ b on octets: the two 4-bit halves, each looked up in a table of BitXor
NibbleXor == << >> \o [k \in 1..256 |-> BitXor((k - 1) \div 16, (k - 1) % 16)]
XorOctet(a, b) ==
    16 * NibbleXor[(a \div 16) * 16 + (b \div 16) + 1]
       + NibbleXor[(a % 16) * 16 + (b % 16) + 1]

\* binary.BigEndian.Uint16 / Uint64: the unsigned value of the octets
RECURSIVE BigEndianUint(_)
BigEndianUint(buf) ==
    IF buf = << >> THEN 0
    ELSE BigEndianUint(SubSeq(buf, 1, Len(buf) - 1)) * 256 + buf[Len(buf)]

\* binary.BigEndian.PutUint16 / PutUint64: v in w octets, high octet first
RECURSIVE BigEndianPut(_, _)
BigEndianPut(v, w) ==
    IF w = 0 THEN << >>
    ELSE Append(BigEndianPut(v \div 256, w - 1), v % 256)

(***************************************************************************)
(* Protocol constants (pkg/protocol/constants.go)                          *)
(***************************************************************************)
MaxPayloadSize == 1048576
PayloadLen16Bit == 126
PayloadLen64Bit == 127

(***************************************************************************)
(* Frames (internal/domain/frame.go)                                       *)
(***************************************************************************)
OpcodeContinuation == 0
OpcodeText == 1
OpcodeBinary == 2
OpcodeClose == 8
OpcodePing == 9
OpcodePong == 10

IsControl(o) == o >= 8
IsData(o) == o <= 2

ZeroKey == <<0, 0, 0, 0>>

\* the zero value of domain.Frame
ZeroFrame ==
    [FIN |-> FALSE, RSV1 |-> FALSE, RSV2 |-> FALSE, RSV3 |-> FALSE,
     Opcode |-> 0, Masked |-> FALSE, PayloadLen |-> 0,
     MaskingKey |-> ZeroKey, Payload |-> << >>]

\* mutant: the frame is made as a client makes it, masked
NewFrame_Masked(opcode, payload) ==
    [FIN |-> TRUE, RSV1 |-> FALSE, RSV2 |-> FALSE, RSV3 |-> FALSE,
     Opcode |-> opcode, Masked |-> TRUE, PayloadLen |-> Len(payload),
     MaskingKey |-> ZeroKey, Payload |-> payload]

NewFrame(opcode, payload) ==
    [FIN |-> TRUE, RSV1 |-> FALSE, RSV2 |-> FALSE, RSV3 |-> FALSE,
     Opcode |-> opcode, Masked |-> FALSE, PayloadLen |-> Len(payload),
     MaskingKey |-> ZeroKey, Payload |-> payload]

isValidOpcode(f) ==
    f.Opcode \in {OpcodeContinuation, OpcodeText, OpcodeBinary,
                  OpcodeClose, OpcodePing, OpcodePong}

\* mutant: a frame a server may not send is refused
Validate_ServerDirection(f) ==
    IF f.Masked THEN ErrMaskedServerFrame
    ELSE IF ~isValidOpcode(f) THEN ErrInvalidOpcode
    ELSE IF f.RSV1 \/ f.RSV2 \/ f.RSV3 THEN ErrReservedBitsSet
    ELSE IF IsControl(f.Opcode) /\ f.PayloadLen > 125 THEN ErrInvalidFrameStructure
    ELSE IF IsControl(f.Opcode) /\ ~f.FIN THEN ErrInvalidFrameStructure
    ELSE IF Len(f.Payload) # f.PayloadLen THEN ErrInvalidFrameStructure
    ELSE NilError

\* mutant: the reserved bits are looked at before the opcode
Validate_ReservedFirst(f) ==
    IF f.RSV1 \/ f.RSV2 \/ f.RSV3 THEN ErrReservedBitsSet
    ELSE IF ~isValidOpcode(f) THEN ErrInvalidOpcode
    ELSE IF IsControl(f.Opcode) /\ f.PayloadLen > 125 THEN ErrInvalidFrameStructure
    ELSE IF IsControl(f.Opcode) /\ ~f.FIN THEN ErrInvalidFrameStructure
    ELSE IF Len(f.Payload) # f.PayloadLen THEN ErrInvalidFrameStructure
    ELSE NilError

\* mutant: the payload's length is not compared with PayloadLen
Validate_NoLengthCheck(f) ==
    IF ~isValidOpcode(f) THEN ErrInvalidOpcode
    ELSE IF f.RSV1 \/ f.RSV2 \/ f.RSV3 THEN ErrReservedBitsSet
    ELSE IF IsControl(f.Opcode) /\ f.PayloadLen > 125 THEN ErrInvalidFrameStructure
    ELSE IF IsControl(f.Opcode) /\ ~f.FIN THEN ErrInvalidFrameStructure
    ELSE NilError

\* f.Validate(): the error returned
Validate(f) ==
    IF ~isValidOpcode(f) THEN ErrInvalidOpcode
    ELSE IF f.RSV1 \/ f.RSV2 \/ f.RSV3 THEN ErrReservedBitsSet
    ELSE IF IsControl(f.Opcode) /\ f.PayloadLen > 125 THEN ErrInvalidFrameStructure
    ELSE IF IsControl(f.Opcode) /\ ~f.FIN THEN ErrInvalidFrameStructure
    ELSE IF Len(f.Payload) # f.PayloadLen THEN ErrInvalidFrameStructure
    ELSE NilError

(***************************************************************************)
(* Messages (internal/domain/message.go)                                   *)
(***************************************************************************)
MessageTypeText == 0
MessageTypeBinary == 1
\* a MessageType outside the two named ones (the type is an int)
MessageTypeUnknown == 99

NewTextMessage(payload) == [Type |-> MessageTypeText, Payload |-> payload]
NewBinaryMessage(payload) == [Type |-> MessageTypeBinary, Payload |-> payload]

\* mutant: a message without payload is refused
MessageValidate_RejectEmpty(m) ==
    IF m.Type # MessageTypeText /\ m.Type # MessageTypeBinary THEN ErrInvalidMessageType
    ELSE IF Len(m.Payload) = 0 THEN ErrEmptyPayload
    ELSE NilError

\* m.Validate(): the error returned
MessageValidate(m) ==
    IF m.Type # MessageTypeText /\ m.Type # MessageTypeBinary THEN ErrInvalidMessageType
    ELSE NilError

\* mutant: a message of unknown kind is answered with a Close
ToOpcode_UnknownCloses(m) ==
    CASE m.Type = MessageTypeText -> OpcodeText
      [] m.Type = MessageTypeBinary -> OpcodeBinary
      [] OTHER -> OpcodeClose

\* mutant: every message is sent as binary
ToOpcode_AlwaysBinary(m) == OpcodeBinary

\* m.ToOpcode()
ToOpcode(m) ==
    CASE m.Type = MessageTypeText -> OpcodeText
      [] m.Type = MessageTypeBinary -> OpcodeBinary
      [] OTHER -> OpcodeBinary

(***************************************************************************)
(* Frame codec (internal/infrastructure/frame_parser.go)                   *)
(***************************************************************************)
\* mutant: zero is taken as a limit like any other
NewFrameParser_NoDefault(size) == size

\* NewFrameParser(maxPayloadSize): the parser's maxPayloadSize
NewFrameParser(size) == IF size = 0 THEN MaxPayloadSize ELSE size

\* A byte source: the octets it holds, and the fault of its transport, which
\* makes Read return fault.err once the octets before offset fault.at have
\* been delivered (at = -1: no fault, the source ends with io.EOF).
NoFault == [at |-> -1, err |-> NilError]
Source(octets, flt) == [octets |-> octets, fault |-> flt]

\* the octets the source delivers before it fails or ends
Deliverable(stream) ==
    IF stream.fault.at >= 0 /\ stream.fault.at < Len(stream.octets)
    THEN stream.fault.at ELSE Len(stream.octets)

\* mutant: after an error the read is tried again, and the source, whose
\* fault has passed, delivers the rest
ReadFull_Retry(stream, pos, n) ==
    IF Len(stream.octets) - pos >= n
    THEN [data |-> SubSeq(stream.octets, pos + 1, pos + n), err |-> NilError, pos |-> pos + n]
    ELSE [data |-> SubSeq(stream.octets, pos + 1, Len(stream.octets)),
          err |-> IF Len(stream.octets) = pos THEN ErrEOF ELSE ErrUnexpectedEOF,
          pos |-> Len(stream.octets)]

\* io.ReadFull(reader, buf) with len(buf) = n, the reader at offset pos of
\* stream: the octets read, the error, and the reader's offset afterwards.
\* Read is called until n octets arrived or it returned an error; with all
\* n octets the result is nil; with none the error is Read's own; with
\* some, io.EOF becomes io.ErrUnexpectedEOF and any other error is kept.
ReadFull(stream, pos, n) ==
    LET end == Deliverable(stream)
        readErr == IF end < Len(stream.octets) \/ stream.fault.at = end
                   THEN stream.fault.err ELSE ErrEOF
    IN
    IF end - pos >= n
    THEN [data |-> SubSeq(stream.octets, pos + 1, pos + n), err |-> NilError, pos |-> pos + n]
    ELSE [data |-> SubSeq(stream.octets, pos + 1, end),
          err |-> IF readErr = ErrEOF /\ end > pos THEN ErrUnexpectedEOF ELSE readErr,
          pos |-> end]

\* mutant: the key is taken one octet further on
UnmaskPayload_KeyOffset(payload, maskingKey) ==
    [i \in 1..Len(payload) |-> XorOctet(payload[i], maskingKey[(i % 4) + 1])]

\* fp.UnmaskPayload(payload, maskingKey): the buffer afterwards
UnmaskPayload(payload, maskingKey) ==
    [i \in 1..Len(payload) |-> XorOctet(payload[i], maskingKey[((i - 1) % 4) + 1])]

\* mutant: a length that a shorter form could carry is refused
parsePayloadLength_Minimal(stream, pos, initialLen) ==
    IF initialLen = PayloadLen16Bit
    THEN LET r == ReadFull(stream, pos, 2) IN
         IF r.err # NilError THEN [len |-> 0, err |-> r.err, pos |-> r.pos]
         ELSE IF BigEndianUint(r.data) < 126
         THEN [len |-> 0, err |-> ErrInvalidFrameStructure, pos |-> r.pos]
         ELSE [len |-> BigEndianUint(r.data), err |-> NilError, pos |-> r.pos]
    ELSE IF initialLen = PayloadLen64Bit
    THEN LET r == ReadFull(stream, pos, 8) IN
         IF r.err # NilError THEN [len |-> 0, err |-> r.err, pos |-> r.pos]
         ELSE IF BigEndianUint(r.data) < 65536
         THEN [len |-> 0, err |-> ErrInvalidFrameStructure, pos |-> r.pos]
         ELSE [len |-> BigEndianUint(r.data), err |-> NilError, pos |-> r.pos]
    ELSE [len |-> initialLen, err |-> NilError, pos |-> pos]

\* fp.parsePayloadLength(reader, initialLen), the reader at offset pos
parsePayloadLength(stream, pos, initialLen) ==
    IF initialLen = PayloadLen16Bit
    THEN LET r == ReadFull(stream, pos, 2) IN
         IF r.err # NilError THEN [len |-> 0, err |-> r.err, pos |-> r.pos]
         ELSE [len |-> BigEndianUint(r.data), err |-> NilError, pos |-> r.pos]
    ELSE IF initialLen = PayloadLen64Bit
    THEN LET r == ReadFull(stream, pos, 8) IN
         IF r.err # NilError THEN [len |-> 0, err |-> r.err, pos |-> r.pos]
         ELSE [len |-> BigEndianUint(r.data), err |-> NilError, pos |-> r.pos]
    ELSE [len |-> initialLen, err |-> NilError, pos |-> pos]

\* the checks of ReadFrame, in the order it makes them
ReadOpcodeInvalid(opcode) == ~IsControl(opcode) /\ ~IsData(opcode)

\* mutant: RSV2 and RSV3 are not looked at
ReadReservedSet_Rsv1Only(rsv1, rsv2, rsv3) == rsv1

ReadReservedSet(rsv1, rsv2, rsv3) == rsv1 \/ rsv2 \/ rsv3

\* mutant: a payload of exactly the maximum is refused
ReadTooLarge_OffByOne(payloadLen, maxSize) == payloadLen >= maxSize

ReadTooLarge(payloadLen, maxSize) == payloadLen > maxSize

\* mutant: a fragmented control frame passes
ReadControlShapeBad_NoFin(opcode, fin, payloadLen) ==
    IsControl(opcode) /\ payloadLen > 125

ReadControlShapeBad(opcode, fin, payloadLen) ==
    \/ IsControl(opcode) /\ payloadLen > 125
    \/ IsControl(opcode) /\ ~fin

\* mutant: the key is read only when a payload follows
ReadHasMaskingKey_OnlyWithPayload(masked, payloadLen) == masked /\ payloadLen > 0

\* whether ReadFrame reads a masking key
ReadHasMaskingKey(masked, payloadLen) == masked

\* ReadFrame's return of (nil, err) after consuming `pos` octets, having
\* allocated a payload buffer of `alloc` octets
ReadFail(err, pos, alloc) ==
    [isNil |-> TRUE, frame |-> ZeroFrame, err |-> err, consumed |-> pos, alloc |-> alloc]

\* fp.ReadFrame(reader) with fp.maxPayloadSize = maxSize and the reader at
\* the start of stream
ReadFrame(maxSize, stream) ==
    LET h == ReadFull(stream, 0, 2) IN
    IF h.err # NilError THEN ReadFail(h.err, h.pos, 0)
    ELSE
    LET header == h.data
        fin == BitAnd(header[1], 128) # 0
        rsv1 == BitAnd(header[1], 64) # 0
        rsv2 == BitAnd(header[1], 32) # 0
        rsv3 == BitAnd(header[1], 16) # 0
        opcode == BitAnd(header[1], 15)
        masked == BitAnd(header[2], 128) # 0
        initialLen == BitAnd(header[2], 127)
    IN
    IF ReadOpcodeInvalid(opcode) THEN ReadFail(ErrInvalidOpcode, h.pos, 0)
    ELSE IF ReadReservedSet(rsv1, rsv2, rsv3) THEN ReadFail(ErrReservedBitsSet, h.pos, 0)
    ELSE
    LET pl == parsePayloadLength(stream, h.pos, initialLen) IN
    IF pl.err # NilError THEN ReadFail(pl.err, pl.pos, 0)
    ELSE IF ReadTooLarge(pl.len, maxSize) THEN ReadFail(ErrPayloadTooLarge, pl.pos, 0)
    ELSE IF ReadControlShapeBad(opcode, fin, pl.len)
         THEN ReadFail(ErrInvalidFrameStructure, pl.pos, 0)
    ELSE
    LET k == IF ReadHasMaskingKey(masked, pl.len) THEN ReadFull(stream, pl.pos, 4)
             ELSE [data |-> ZeroKey, err |-> NilError, pos |-> pl.pos]
    IN
    IF k.err # NilError THEN ReadFail(k.err, k.pos, 0)
    ELSE
    LET p == IF pl.len > 0 THEN ReadFull(stream, k.pos, pl.len)
             ELSE [data |-> << >>, err |-> NilError, pos |-> k.pos]
    IN
    IF p.err # NilError THEN ReadFail(p.err, p.pos, pl.len)
    ELSE [isNil |-> FALSE,
          frame |-> [FIN |-> fin, RSV1 |-> rsv1, RSV2 |-> rsv2, RSV3 |-> rsv3,
                     Opcode |-> opcode, Masked |-> masked, PayloadLen |-> pl.len,
                     MaskingKey |-> k.data,
                     Payload |-> IF masked THEN UnmaskPayload(p.data, k.data) ELSE p.data],
          err |-> NilError, consumed |-> p.pos, alloc |-> pl.len]

\* mutant: 126 is still written in the 7-bit field
WriteLengthField_OffByOne(maskBit, payloadLen) ==
    IF payloadLen <= 126 THEN <<BitOr(maskBit, payloadLen % 256)>>
    ELSE IF payloadLen <= 65535
    THEN <<BitOr(maskBit, PayloadLen16Bit)>> \o BigEndianPut(payloadLen % 65536, 2)
    ELSE <<BitOr(maskBit, PayloadLen64Bit)>> \o BigEndianPut(payloadLen, 8)

\* mutant: short lengths too are written in the 16-bit form
WriteLengthField_Always16(maskBit, payloadLen) ==
    IF payloadLen <= 65535
    THEN <<BitOr(maskBit, PayloadLen16Bit)>> \o BigEndianPut(payloadLen % 65536, 2)
    ELSE <<BitOr(maskBit, PayloadLen64Bit)>> \o BigEndianPut(payloadLen, 8)

\* the second octet (secondByte = maskBit so far) and the extended length
WriteLengthField(maskBit, payloadLen) ==
    IF payloadLen <= 125 THEN <<BitOr(maskBit, payloadLen % 256)>>
    ELSE IF payloadLen <= 65535
    THEN <<BitOr(maskBit, PayloadLen16Bit)>> \o BigEndianPut(payloadLen % 65536, 2)
    ELSE <<BitOr(maskBit, PayloadLen64Bit)>> \o BigEndianPut(payloadLen, 8)

\* mutant: the masking key is put in front of the length field
WriteHeader_KeyFirst(frame) ==
    LET b0 == BitOr(BitOr(BitOr(BitOr(frame.Opcode,
                  IF frame.FIN THEN 128 ELSE 0),
                  IF frame.RSV1 THEN 64 ELSE 0),
                  IF frame.RSV2 THEN 32 ELSE 0),
                  IF frame.RSV3 THEN 16 ELSE 0)
        maskBit == IF frame.Masked THEN 128 ELSE 0
    IN <<b0>> \o (IF frame.Masked THEN frame.MaskingKey ELSE << >>)
            \o WriteLengthField(maskBit, frame.PayloadLen)

\* the header octets WriteFrame builds for a frame that passed Validate
WriteHeader(frame) ==
    LET b0 == BitOr(BitOr(BitOr(BitOr(frame.Opcode,
                  IF frame.FIN THEN 128 ELSE 0),
                  IF frame.RSV1 THEN 64 ELSE 0),
                  IF frame.RSV2 THEN 32 ELSE 0),
                  IF frame.RSV3 THEN 16 ELSE 0)
        maskBit == IF frame.Masked THEN 128 ELSE 0
    IN <<b0>> \o WriteLengthField(maskBit, frame.PayloadLen)
            \o (IF frame.Masked THEN frame.MaskingKey ELSE << >>)

\* mutant: the payload is masked where it lies, without the copy
WritePayloadBuffers_InPlace(frame) ==
    IF frame.Masked
    THEN [bufs |-> <<UnmaskPayload(frame.Payload, frame.MaskingKey)>>, ref |-> 1]
    ELSE [bufs |-> <<frame.Payload>>, ref |-> 1]

\* the buffers behind `payload` when WriteFrame hands it to the writer:
\* buffer 1 is the caller's frame.Payload; for a masked frame buffer 2 is the
\* copy made of it, on which UnmaskPayload has worked; ref is the buffer
\* `payload` refers to
WritePayloadBuffers(frame) ==
    IF frame.Masked
    THEN [bufs |-> <<frame.Payload, UnmaskPayload(frame.Payload, frame.MaskingKey)>>,
          ref |-> 2]
    ELSE [bufs |-> <<frame.Payload>>, ref |-> 1]

\* mutant: the payload is written although the header could not be
AfterHeaderWrite_IgnoreError(err, payloadLen) ==
    IF payloadLen > 0 THEN "writePayload" ELSE "return"

\* what WriteFrame does once writer.Write(header) has returned err
AfterHeaderWrite(err, payloadLen) ==
    IF err # NilError THEN "return"
    ELSE IF payloadLen > 0 THEN "writePayload"
    ELSE "return"

\* the end of WriteFrame for a frame with a payload, on a writer that takes
\* every octet: b is the buffers `payload` is written from
WritePayload(frame, header, b) ==
    [err |-> NilError, writes |-> <<header, b.bufs[b.ref]>>,
     frame |-> [frame EXCEPT !.Payload = b.bufs[1]]]

\* fp.WriteFrame(writer, frame) on a writer that takes every octet: the error
\* returned, the octets of each writer.Write call in order, and the caller's
\* frame afterwards
WriteFrame(frame) ==
    IF Validate(frame) # NilError
    THEN [err |-> Validate(frame), writes |-> << >>, frame |-> frame]
    ELSE IF AfterHeaderWrite(NilError, Len(frame.Payload)) = "writePayload"
    THEN WritePayload(frame, WriteHeader(frame), WritePayloadBuffers(frame))
    ELSE [err |-> NilError, writes |-> <<WriteHeader(frame)>>, frame |-> frame]

\* the octets a sequence of Write calls puts on the stream
RECURSIVE Flatten(_)
Flatten(chunks) ==
    IF chunks = << >> THEN << >> ELSE Head(chunks) \o Flatten(Tail(chunks))

ConnIds == {"c1"}
RemoteAddrs == {"1.2.3.4:5678"}
Predicates == {"IsOpen", "IsClosing", "IsClosed"}

NoCodecRes ==
    [op |-> "none", src |-> "none", frame |-> ZeroFrame, enc |-> 0,
     err |-> NilError, out |-> ZeroFrame, isNil |-> TRUE,
     consumed |-> 0, alloc |-> 0, writes |-> << >>, avail |-> 0, size |-> 0]

NoConnRes == [op |-> "none", conn |-> 0, arg |-> 0, from |-> 0, err |-> NilError, ret |-> FALSE]

NewConnectionAct ==
    /\ Len(conns) < MaxConns
    /\ \E id \in ConnIds, addr \in RemoteAddrs :
          /\ conns' = Append(conns, NewConnection(id, addr))
          /\ connRes' = [op |-> "NewConnection", conn |-> Len(conns) + 1, arg |-> 0,
                         from |-> StateConnecting, err |-> NilError, ret |-> TRUE]
    /\ succeeded' = Append(succeeded, 0)
    /\ maps' = MakeMap
    /\ UNCHANGED <<now, codecVars, auxVars>>

TransitionToAct ==
    /\ \E i \in 1..Len(conns), newState \in StateArgs :
          LET r == TransitionTo(conns[i], newState) IN
          /\ conns' = [conns EXCEPT ![i] = r.conn]
          /\ connRes' = [op |-> "TransitionTo", conn |-> i, arg |-> newState,
                         from |-> conns[i].State, err |-> r.err,
                         ret |-> r.err = NilError]
          /\ succeeded' = IF r.err = NilError
                          THEN [succeeded EXCEPT ![i] = @ + 1] ELSE succeeded
    /\ UNCHANGED <<now, maps, codecVars, auxVars>>

CanTransitionToAct ==
    /\ \E i \in 1..Len(conns), newState \in StateArgs :
          connRes' = [op |-> "CanTransitionTo", conn |-> i, arg |-> newState,
                      from |-> conns[i].State, err |-> NilError,
                      ret |-> CanTransitionTo(conns[i].State, newState)]
    /\ UNCHANGED <<conns, now, succeeded, maps, codecVars, auxVars>>

UpdateActivityAct ==
    /\ \E i \in 1..Len(conns) :
          /\ conns' = [conns EXCEPT ![i] = UpdateActivity(conns[i])]
          /\ connRes' = [op |-> "UpdateActivity", conn |-> i, arg |-> 0,
                         from |-> conns[i].State, err |-> NilError, ret |-> TRUE]
    /\ UNCHANGED <<now, succeeded, maps, codecVars, auxVars>>

PredicateAct ==
    /\ \E i \in 1..Len(conns), p \in Predicates :
          connRes' = [op |-> p, conn |-> i, arg |-> 0,
                      from |-> conns[i].State, err |-> NilError,
                      ret |-> CASE p = "IsOpen" -> IsOpen(conns[i])
                                [] p = "IsClosing" -> IsClosing(conns[i])
                                [] OTHER -> IsClosed(conns[i])]
    /\ UNCHANGED <<conns, now, succeeded, maps, codecVars, auxVars>>

\* time passes between calls
Tick ==
    /\ now < MaxClock
    /\ now' = now + 1
    /\ UNCHANGED <<conns, connRes, succeeded, maps, codecVars, auxVars>>

\* the components a specification does not use stay as they are constructed
LateIdle ==
    /\ msgFlow = << >>
    /\ race = << >>

AuxIdle ==
    /\ LateIdle
    /\ fault = NoFault
    /\ writers = << >>
    /\ sink = << >>
    /\ mask = << >>
    /\ hs = << >>

CodecIdle ==
    /\ maxPayloadSize = 0
    /\ wire = << >>
    /\ sent = << >>
    /\ received = << >>
    /\ desync = FALSE
    /\ codecRes = NoCodecRes

InitConn ==
    /\ conns = << >>
    /\ now = 0
    /\ connRes = NoConnRes
    /\ succeeded = << >>
    /\ maps = << >>
    /\ CodecIdle
    /\ AuxIdle

NextConn ==
    \/ NewConnectionAct
    \/ TransitionToAct
    \/ CanTransitionToAct
    \/ UpdateActivityAct
    \/ PredicateAct
    \/ Tick

SpecConn == InitConn /\ [][NextConn]_vars

(***************************************************************************)
(* SpecIndep: several Connections used side by side.  Besides the methods  *)
(* of Connection the callers write entries into the public Metadata map of *)
(* a connection; calls are serialized.                                     *)
(***************************************************************************)
\* the peers that connect, each with the ID its connection is given
Peers == {[id |-> "c1", addr |-> "1.2.3.4:5678"], [id |-> "c2", addr |-> "5.6.7.8:1234"]}
MetaKeys == {"user"}
MetaValues == {"alice", "bob"}

\* conn.Metadata[key] = value
MetadataWriteAct ==
    /\ \E i \in 1..Len(conns), key \in MetaKeys, value \in MetaValues :
          /\ maps' = [maps EXCEPT ![conns[i].Metadata] = MapAssign(@, key, value)]
          /\ connRes' = [op |-> "MetadataWrite", conn |-> i, arg |-> 0,
                         from |-> conns[i].State, err |-> NilError, ret |-> TRUE]
    /\ UNCHANGED <<conns, now, succeeded, codecVars, auxVars>>

\* NewConnection(id, remoteAddr) for a peer that has no connection yet: ID
\* is the unique identifier of a connection
NewPeerConnectionAct ==
    /\ \E p \in Peers :
          /\ \A j \in 1..Len(conns) : conns[j].ID # p.id
          /\ conns' = Append(conns, NewConnection(p.id, p.addr))
          /\ connRes' = [op |-> "NewConnection", conn |-> Len(conns) + 1, arg |-> 0,
                         from |-> StateConnecting, err |-> NilError, ret |-> TRUE]
    /\ succeeded' = Append(succeeded, 0)
    /\ maps' = MakeMap
    /\ UNCHANGED <<now, codecVars, auxVars>>

NextIndep ==
    \/ NewPeerConnectionAct
    \/ TransitionToAct
    \/ UpdateActivityAct
    \/ MetadataWriteAct
    \/ Tick

SpecIndep == InitConn /\ [][NextIndep]_vars

(***************************************************************************)
(* SpecRace: one Connection shared by two goroutines that call             *)
(* TransitionTo without serialization.  A call reads c.State in            *)
(* CanTransitionTo, and then either assigns c.State or reads it once more  *)
(* for the text of its error; the goroutines' reads and writes interleave  *)
(* in any order.                                                           *)
(***************************************************************************)
Callers == {"g1", "g2"}

NoCall == [pc |-> "idle", arg |-> 0, seen |-> 0, err |-> NilError]
NoAssignment == [by |-> "none", from |-> 0, to |-> 0]

InitRace ==
    /\ conns = << >>
    /\ now = 0
    /\ connRes = NoConnRes
    /\ succeeded = << >>
    /\ maps = <<{}>>   \* the map NewConnection has allocated for the connection
    /\ CodecIdle
    /\ fault = NoFault
    /\ writers = << >>
    /\ sink = << >>
    /\ mask = << >>
    /\ hs = << >>
    /\ msgFlow = << >>
    /\ \E id \in ConnIds, addr \in RemoteAddrs :
          race = [conn |-> [NewConnection(id, addr) EXCEPT !.Metadata = Len(maps)],
                  calls |-> [g \in Callers |-> NoCall],
                  last |-> NoAssignment]

\* goroutine g calls c.TransitionTo(newState)
RaceCallAct ==
    /\ \E g \in Callers, newState \in StateArgs :
          /\ race.calls[g].pc = "idle"
          /\ race' = [race EXCEPT !.calls[g] = [NoCall EXCEPT !.pc = "called",
                                                               !.arg = newState]]
    /\ UNCHANGED <<connVars, codecVars, fault, writers, sink, mask, hs, msgFlow>>

\* if !c.CanTransitionTo(newState): c.State is read
RaceCheckStep ==
    /\ \E g \in Callers :
          /\ race.calls[g].pc = "called"
          /\ race' = [race EXCEPT
                        !.calls[g].seen = race.conn.State,
                        !.calls[g].pc =
                            IF CanTransitionTo(race.conn.State, race.calls[g].arg)
                            THEN "passed" ELSE "refused"]
    /\ UNCHANGED <<connVars, codecVars, fault, writers, sink, mask, hs, msgFlow>>

\* return fmt.Errorf(..., c.State, newState): c.State is read again
RaceRefuseStep ==
    /\ \E g \in Callers :
          /\ race.calls[g].pc = "refused"
          /\ race' = [race EXCEPT
                        !.calls[g].pc = "returned",
                        !.calls[g].err =
                            Wrap(ErrInvalidState,
                                 <<"cannot transition from", StateString(race.conn.State),
                                   "to", StateString(race.calls[g].arg)>>)]
    /\ UNCHANGED <<connVars, codecVars, fault, writers, sink, mask, hs, msgFlow>>

\* c.State = newState; return nil
RaceSetStep ==
    /\ \E g \in Callers :
          /\ race.calls[g].pc = "passed"
          /\ \E r \in {TransitionToSet(race.conn, race.calls[g].arg)} :
                race' = [race EXCEPT
                           !.conn = r.conn,
                           !.last = [by |-> g, from |-> race.conn.State,
                                     to |-> r.conn.State],
                           !.calls[g].pc = "returned",
                           !.calls[g].err = r.err]
    /\ UNCHANGED <<connVars, codecVars, fault, writers, sink, mask, hs, msgFlow>>

\* the caller has its result and goes on
RaceReturnAct ==
    /\ \E g \in Callers :
          /\ race.calls[g].pc = "returned"
          /\ race' = [race EXCEPT !.calls[g] = NoCall]
    /\ UNCHANGED <<connVars, codecVars, fault, writers, sink, mask, hs, msgFlow>>

NextRace ==
    \/ RaceCallAct
    \/ RaceCheckStep
    \/ RaceRefuseStep
    \/ RaceSetStep
    \/ RaceReturnAct

SpecRace == InitRace /\ [][NextRace]_vars

(***************************************************************************)
(* Inputs of the codec: the frames callers hand to WriteFrame, and the     *)
(* octets a peer puts on the stream (built the way the tests of            *)
(* frame_parser build them by hand, with any header bits and any of the    *)
(* three length encodings).                                                *)
(***************************************************************************)
\* payload octets 0, 1, 2, ... as the property tests fill them
Fill(n) == [i \in 1..n |-> (i - 1) % 256]
Hello == <<72, 101, 108, 108, 111>>

KeyA == <<55, 250, 33, 61>>
KeyB == <<18, 52, 86, 120>>

ConfiguredSizes == {0, 4, 200}

Booleans == {TRUE, FALSE}
RsvCombos == {<<r1, r2, r3>> : r1 \in Booleans, r2 \in Booleans, r3 \in Booleans}
CallerRsv == {<<FALSE, FALSE, FALSE>>, <<TRUE, FALSE, FALSE>>, <<FALSE, TRUE, FALSE>>,
              <<FALSE, FALSE, TRUE>>}
CallerOpcodes == {OpcodeContinuation, OpcodeText, OpcodeBinary,
                  OpcodeClose, OpcodePing, OpcodePong, 3, 11}
\* Masked with its key; an unmasked frame may carry any key too
MaskChoices == {<<FALSE, ZeroKey>>, <<FALSE, KeyB>>, <<TRUE, KeyA>>, <<TRUE, KeyB>>}
SmallPayloads == {<< >>, <<7>>, Hello, Fill(125), Fill(126), Fill(200)}
LargePayloads == {Fill(65535), Fill(65536)}

MkFrame(fin, rsv, opcode, mk, payloadLen, payload) ==
    [FIN |-> fin, RSV1 |-> rsv[1], RSV2 |-> rsv[2], RSV3 |-> rsv[3],
     Opcode |-> opcode, Masked |-> mk[1], PayloadLen |-> payloadLen,
     MaskingKey |-> mk[2], Payload |-> payload]

NoRsv == <<FALSE, FALSE, FALSE>>

CallerFrames ==
    {MkFrame(fin, NoRsv, op, mk, Len(p), p) :
        fin \in Booleans, op \in CallerOpcodes,
        mk \in MaskChoices, p \in SmallPayloads}
    \cup
    \* reserved bits set by the caller
    {MkFrame(fin, rsv, op, mk, Len(p), p) :
        fin \in Booleans, rsv \in CallerRsv \ {NoRsv}, op \in CallerOpcodes,
        mk \in {<<FALSE, ZeroKey>>, <<TRUE, KeyA>>}, p \in {Hello, Fill(126)}}
    \cup
    \* PayloadLen that is not the payload's length
    {MkFrame(fin, NoRsv, op, mk, Len(p) + d, p) :
        fin \in Booleans, op \in {OpcodeText, OpcodePing, 3},
        mk \in {<<FALSE, ZeroKey>>, <<TRUE, KeyA>>},
        p \in {<<7>>, Fill(125), Fill(126)}, d \in {-1, 1}}
    \cup
    \* payloads on both sides of the 16-bit length boundary
    {MkFrame(TRUE, NoRsv, OpcodeBinary, <<FALSE, ZeroKey>>, Len(p), p) : p \in LargePayloads}
    \cup
    {MkFrame(FALSE, NoRsv, OpcodeText, <<TRUE, KeyA>>, 65536, Fill(65536))}

\* (encoding, payload length) of the frames a peer sends
PeerShapes ==
    ({7} \X {0, 4, 5, 125})
    \cup ({16} \X {0, 4, 5, 125, 126, 200, 201})
    \cup ({64} \X {0, 5, 125, 126, 200, 201})

PeerFrames ==
    \* every opcode, reserved bits clear, every shape
    {[frame |-> MkFrame(fin, NoRsv, op, mk, sh[2], Fill(sh[2])), enc |-> sh[1]] :
        fin \in Booleans, op \in 0..15,
        mk \in {<<FALSE, ZeroKey>>, <<TRUE, KeyB>>}, sh \in PeerShapes}
    \cup
    \* every first octet
    {[frame |-> MkFrame(fin, rsv, op, mk, sh[2], Fill(sh[2])), enc |-> sh[1]] :
        fin \in Booleans, rsv \in RsvCombos, op \in 0..15,
        mk \in {<<FALSE, ZeroKey>>, <<TRUE, KeyB>>},
        sh \in {<<7, 5>>, <<16, 126>>, <<64, 201>>}}

\* the octets of one frame as a peer builds them
PeerEncode(f, enc) ==
    LET b0 == f.Opcode + (IF f.FIN THEN 128 ELSE 0) + (IF f.RSV1 THEN 64 ELSE 0)
                       + (IF f.RSV2 THEN 32 ELSE 0) + (IF f.RSV3 THEN 16 ELSE 0)
        m == IF f.Masked THEN 128 ELSE 0
        lenField == IF enc = 7 THEN <<m + f.PayloadLen>>
                    ELSE IF enc = 16 THEN <<m + 126>> \o BigEndianPut(f.PayloadLen, 2)
                    ELSE <<m + 127>> \o BigEndianPut(f.PayloadLen, 8)
        body == IF f.Masked
                THEN [i \in 1..Len(f.Payload) |->
                         XorOctet(f.Payload[i], f.MaskingKey[((i - 1) % 4) + 1])]
                ELSE f.Payload
    IN <<b0>> \o lenField \o (IF f.Masked THEN f.MaskingKey ELSE << >>) \o body

(***************************************************************************)
(* SpecCodec: one frame at a time over a fresh buffer.  A caller writes a  *)
(* frame with WriteFrame, or a peer puts the octets of a frame on the      *)
(* stream; ReadFrame then reads the stream.                                *)
(***************************************************************************)
ConnIdle ==
    /\ conns = << >>
    /\ now = 0
    /\ connRes = NoConnRes
    /\ succeeded = << >>
    /\ maps = << >>

InitCodec ==
    /\ ConnIdle
    /\ AuxIdle
    /\ maxPayloadSize \in {NewFrameParser(size) : size \in ConfiguredSizes}
    /\ wire = << >>
    /\ sent = << >>
    /\ received = << >>
    /\ desync = FALSE
    /\ codecRes = NoCodecRes

WriteFrameAct ==
    /\ codecRes.op = "none"
    /\ \E f \in CallerFrames : \E w \in {WriteFrame(f)} :
          /\ wire' = Flatten(w.writes)
          /\ codecRes' = [NoCodecRes EXCEPT !.op = "WriteFrame", !.src = "WriteFrame",
                             !.frame = f, !.err = w.err, !.writes = w.writes]
    /\ UNCHANGED <<maxPayloadSize, sent, received, desync, connVars, auxVars>>

PeerSendAct ==
    /\ codecRes.op = "none"
    /\ \E d \in PeerFrames :
          /\ wire' = PeerEncode(d.frame, d.enc)
          /\ codecRes' = [NoCodecRes EXCEPT !.op = "PeerSend", !.src = "PeerSend",
                             !.frame = d.frame, !.enc = d.enc]
    /\ UNCHANGED <<maxPayloadSize, sent, received, desync, connVars, auxVars>>

ReadFrameAct ==
    /\ codecRes.op \in {"WriteFrame", "PeerSend"}
    /\ wire # << >>
    /\ \E r \in {ReadFrame(maxPayloadSize, Source(wire, fault))} :
          /\ wire' = SubSeq(wire, r.consumed + 1, Len(wire))
          /\ codecRes' = [codecRes EXCEPT !.op = "ReadFrame", !.err = r.err,
                             !.out = r.frame, !.isNil = r.isNil,
                             !.consumed = r.consumed, !.alloc = r.alloc,
                             !.writes = << >>]
    /\ UNCHANGED <<maxPayloadSize, sent, received, desync, connVars, auxVars>>

\* the next exchange starts on a new buffer
NewBufferAct ==
    /\ codecRes.op # "none"
    /\ wire' = << >>
    /\ codecRes' = NoCodecRes
    /\ UNCHANGED <<maxPayloadSize, sent, received, desync, connVars, auxVars>>

NextCodec ==
    \/ WriteFrameAct
    \/ PeerSendAct
    \/ ReadFrameAct
    \/ NewBufferAct

SpecCodec == InitCodec /\ [][NextCodec]_vars

(***************************************************************************)
(* SpecStream: one byte stream carrying several frames back to back.       *)
(* Callers append frames with WriteFrame and a peer appends the octets of  *)
(* valid frames in any length encoding, while ReadFrame is called on the   *)
(* stream again and again.  A read blocks on an empty stream; after a      *)
(* failed read the stream position is undefined and the stream is given up.*)
(***************************************************************************)
StreamSizes == {0, 4}

StreamCallerFrames ==
    {MkFrame(TRUE, NoRsv, OpcodeText, mk, Len(p), p) :
        mk \in {<<FALSE, ZeroKey>>, <<TRUE, KeyA>>}, p \in {<< >>, <<7>>, Fill(126)}}
    \cup
    {MkFrame(TRUE, NoRsv, OpcodePing, mk, Len(p), p) :
        mk \in {<<FALSE, ZeroKey>>, <<TRUE, KeyA>>}, p \in {<< >>, <<7>>}}
    \cup
    {MkFrame(FALSE, NoRsv, OpcodeContinuation, <<FALSE, ZeroKey>>, 1, <<7>>)}

StreamPeerFrames ==
    {[frame |-> MkFrame(TRUE, NoRsv, OpcodeText, <<TRUE, KeyB>>, 0, << >>), enc |-> 16],
     [frame |-> MkFrame(TRUE, NoRsv, OpcodeBinary, <<TRUE, KeyB>>, 5, Fill(5)), enc |-> 64],
     [frame |-> MkFrame(TRUE, NoRsv, OpcodePong, <<FALSE, ZeroKey>>, 4, Fill(4)), enc |-> 16]}

InitStream ==
    /\ ConnIdle
    /\ AuxIdle
    /\ maxPayloadSize \in {NewFrameParser(size) : size \in StreamSizes}
    /\ wire = << >>
    /\ sent = << >>
    /\ received = << >>
    /\ desync = FALSE
    /\ codecRes = NoCodecRes

StreamWriteAct ==
    /\ ~desync
    /\ Len(sent) < MaxFrames
    /\ \E f \in StreamCallerFrames : \E w \in {WriteFrame(f)} :
          /\ wire' = wire \o Flatten(w.writes)
          /\ sent' = IF w.err = NilError THEN Append(sent, [frame |-> f, enc |-> 0])
                     ELSE sent
          /\ codecRes' = [NoCodecRes EXCEPT !.op = "WriteFrame", !.src = "WriteFrame",
                             !.frame = f, !.err = w.err, !.writes = w.writes]
    /\ UNCHANGED <<maxPayloadSize, received, desync, connVars, auxVars>>

StreamPeerAct ==
    /\ ~desync
    /\ Len(sent) < MaxFrames
    /\ \E d \in StreamPeerFrames :
          /\ wire' = wire \o PeerEncode(d.frame, d.enc)
          /\ sent' = Append(sent, d)
          /\ codecRes' = [NoCodecRes EXCEPT !.op = "PeerSend", !.src = "PeerSend",
                             !.frame = d.frame, !.enc = d.enc]
    /\ UNCHANGED <<maxPayloadSize, received, desync, connVars, auxVars>>

StreamReadAct ==
    /\ ~desync
    /\ wire # << >>
    /\ \E r \in {ReadFrame(maxPayloadSize, Source(wire, fault))} :
          /\ wire' = SubSeq(wire, r.consumed + 1, Len(wire))
          /\ received' = IF r.err = NilError THEN Append(received, r.frame) ELSE received
          /\ desync' = (r.err # NilError)
          /\ codecRes' = [NoCodecRes EXCEPT !.op = "ReadFrame", !.src = "stream",
                             !.err = r.err, !.out = r.frame, !.isNil = r.isNil,
                             !.consumed = r.consumed, !.alloc = r.alloc]
    /\ UNCHANGED <<maxPayloadSize, sent, connVars, auxVars>>

NextStream ==
    \/ StreamWriteAct
    \/ StreamPeerAct
    \/ StreamReadAct

SpecStream == InitStream /\ [][NextStream]_vars

(***************************************************************************)
(* SpecSource: ReadFrame on a byte source that ends or fails part-way.     *)
(* A peer sends the octets of a valid frame; the source either ends after  *)
(* the first `cut` of them (the peer went away), or holds them all while   *)
(* its transport fails once `cut` octets have been delivered (a deadline,  *)
(* a closed pipe, after which later reads could succeed again).            *)
(***************************************************************************)
SourceSizes == {0, 200}

SourceFrames ==
    {[frame |-> MkFrame(TRUE, NoRsv, OpcodeText, <<FALSE, ZeroKey>>, 5, Hello), enc |-> 7],
     [frame |-> MkFrame(TRUE, NoRsv, OpcodeBinary, <<TRUE, KeyB>>, 4, Fill(4)), enc |-> 16],
     [frame |-> MkFrame(TRUE, NoRsv, OpcodePing, <<TRUE, KeyB>>, 0, << >>), enc |-> 7],
     [frame |-> MkFrame(FALSE, NoRsv, OpcodeBinary, <<FALSE, ZeroKey>>, 3, Fill(3)), enc |-> 64],
     [frame |-> MkFrame(FALSE, NoRsv, OpcodeContinuation, <<TRUE, KeyB>>, 126, Fill(126)),
      enc |-> 16]}

SourceErrors == {ErrEOF, ErrClosedPipe}

InitSource ==
    /\ ConnIdle
    /\ AuxIdle
    /\ maxPayloadSize \in {NewFrameParser(size) : size \in SourceSizes}
    /\ wire = << >>
    /\ sent = << >>
    /\ received = << >>
    /\ desync = FALSE
    /\ codecRes = NoCodecRes

SourceSendAct ==
    /\ codecRes.op = "none"
    /\ \E d \in SourceFrames : \E full \in {PeerEncode(d.frame, d.enc)} :
       \E cut \in 0..Len(full), e \in SourceErrors :
          /\ wire' = IF e = ErrEOF THEN SubSeq(full, 1, cut) ELSE full
          /\ fault' = IF e = ErrEOF THEN NoFault ELSE [at |-> cut, err |-> e]
          /\ codecRes' = [NoCodecRes EXCEPT !.op = "PeerSend", !.src = "Source",
                             !.frame = d.frame, !.enc = d.enc, !.avail = cut]
    /\ UNCHANGED <<maxPayloadSize, sent, received, desync, connVars,
                   writers, sink, mask, hs, lateVars>>

SourceReadAct ==
    /\ codecRes.op = "PeerSend"
    /\ \E r \in {ReadFrame(maxPayloadSize, Source(wire, fault))} :
          /\ wire' = SubSeq(wire, r.consumed + 1, Len(wire))
          /\ codecRes' = [codecRes EXCEPT !.op = "ReadFrame", !.err = r.err,
                             !.out = r.frame, !.isNil = r.isNil,
                             !.consumed = r.consumed, !.alloc = r.alloc]
    /\ UNCHANGED <<maxPayloadSize, sent, received, desync, connVars, auxVars>>

\* the connection is torn down and the next one starts on a new source
SourceResetAct ==
    /\ codecRes.op = "ReadFrame"
    /\ wire' = << >>
    /\ fault' = NoFault
    /\ codecRes' = NoCodecRes
    /\ UNCHANGED <<maxPayloadSize, sent, received, desync, connVars,
                   writers, sink, mask, hs, lateVars>>

NextSource ==
    \/ SourceSendAct
    \/ SourceReadAct
    \/ SourceResetAct

SpecSource == InitSource /\ [][NextSource]_vars

(***************************************************************************)
(* SpecSink: two goroutines call WriteFrame on one sink, each call a       *)
(* sequence of steps: Validate and the building of the header, then        *)
(* writer.Write(header), then, for a frame with a payload, the masking of  *)
(* a copy and writer.Write(payload).  The sink takes each Write call as a  *)
(* whole (its Write is atomic), or fails it with an error of the           *)
(* transport, having taken none or some of the octets.                     *)
(***************************************************************************)
Goroutines == {"g1", "g2"}

SinkFrames ==
    {MkFrame(TRUE, NoRsv, OpcodeText, <<FALSE, ZeroKey>>, 5, Hello),
     MkFrame(TRUE, NoRsv, OpcodeBinary, <<TRUE, KeyA>>, 5, Hello),
     MkFrame(FALSE, NoRsv, OpcodeContinuation, <<TRUE, KeyB>>, 126, Fill(126)),
     MkFrame(TRUE, NoRsv, OpcodePing, <<FALSE, ZeroKey>>, 0, << >>),
     MkFrame(TRUE, NoRsv, OpcodePong, <<TRUE, KeyB>>, 0, << >>),
     MkFrame(FALSE, NoRsv, OpcodeClose, <<TRUE, KeyA>>, 1, <<7>>),
     MkFrame(TRUE, NoRsv, OpcodeText, <<TRUE, KeyA>>, 4, Hello)}

\* what writer.Write(p) can return: how many of the octets were taken, and
\* the error
WriteOutcomes(p) ==
    {[n |-> Len(p), err |-> NilError], [n |-> 0, err |-> ErrClosedPipe]}
    \cup (IF Len(p) > 1 THEN {[n |-> 1, err |-> ErrClosedPipe]} ELSE {})

NoWriter ==
    [pc |-> "idle", arg |-> ZeroFrame, frame |-> ZeroFrame, header |-> << >>,
     payload |-> << >>, err |-> NilError,
     hdrWrites |-> 0, hdrErr |-> NilError, payWrites |-> 0, payErr |-> NilError]

InitSink ==
    /\ ConnIdle
    /\ CodecIdle
    /\ LateIdle
    /\ fault = NoFault
    /\ mask = << >>
    /\ hs = << >>
    /\ writers = [g \in Goroutines |-> NoWriter]
    /\ sink = << >>

\* WriteFrame is called: Validate, and the header is built
WriteFrameCall ==
    /\ \E g \in Goroutines, f \in SinkFrames :
          /\ writers[g].pc = "idle"
          /\ writers' = [writers EXCEPT ![g] =
                IF Validate(f) # NilError
                THEN [NoWriter EXCEPT !.pc = "returned", !.arg = f, !.frame = f,
                                      !.err = Validate(f)]
                ELSE [NoWriter EXCEPT !.pc = "writeHeader", !.arg = f, !.frame = f,
                                      !.header = WriteHeader(f)]]
    /\ UNCHANGED <<sink, connVars, codecVars, fault, mask, hs, lateVars>>

\* writer.Write(header) and what follows it up to the next Write
WriteHeaderStep ==
    /\ \E g \in Goroutines :
          /\ writers[g].pc = "writeHeader"
          /\ \E o \in WriteOutcomes(writers[g].header) :
             \E b \in {WritePayloadBuffers(writers[g].frame)} :
             \E next \in {AfterHeaderWrite(o.err, Len(writers[g].frame.Payload))} :
                /\ sink' = IF o.n > 0
                           THEN Append(sink, [who |-> g, part |-> "header",
                                              octets |-> SubSeq(writers[g].header, 1, o.n)])
                           ELSE sink
                /\ writers' = [writers EXCEPT ![g] =
                      IF next = "writePayload"
                      THEN [@ EXCEPT !.pc = "writePayload", !.hdrWrites = @ + 1,
                                     !.hdrErr = o.err,
                                     !.frame = [@ EXCEPT !.Payload = b.bufs[1]],
                                     !.payload = b.bufs[b.ref]]
                      ELSE [@ EXCEPT !.pc = "returned", !.hdrWrites = @ + 1,
                                     !.hdrErr = o.err, !.err = o.err]]
    /\ UNCHANGED <<connVars, codecVars, fault, mask, hs, lateVars>>

\* writer.Write(payload) and the return
WritePayloadStep ==
    /\ \E g \in Goroutines :
          /\ writers[g].pc = "writePayload"
          /\ \E o \in WriteOutcomes(writers[g].payload) :
                /\ sink' = IF o.n > 0
                           THEN Append(sink, [who |-> g, part |-> "payload",
                                              octets |-> SubSeq(writers[g].payload, 1, o.n)])
                           ELSE sink
                /\ writers' = [writers EXCEPT ![g] =
                      [@ EXCEPT !.pc = "returned", !.payWrites = @ + 1,
                                !.payErr = o.err, !.err = o.err]]
    /\ UNCHANGED <<connVars, codecVars, fault, mask, hs, lateVars>>

NextSink ==
    \/ WriteFrameCall
    \/ WriteHeaderStep
    \/ WritePayloadStep

SpecSink == InitSink /\ [][NextSink]_vars

(***************************************************************************)
(* SpecMask: UnmaskPayload applied, in place, to a buffer of any length    *)
(* with any of a few keys, again and again.                                *)
(***************************************************************************)
MaskOctets == {0, 90, 255}
MaskKeys == {ZeroKey, KeyA, KeyB, <<255, 255, 255, 255>>}

RECURSIVE BuffersOfLen(_)
BuffersOfLen(n) ==
    IF n = 0 THEN {<< >>}
    ELSE {Append(b, o) : b \in BuffersOfLen(n - 1), o \in MaskOctets}

MaskBuffers == UNION {BuffersOfLen(n) : n \in 0..MaxBufLen}

InitMask ==
    /\ ConnIdle
    /\ CodecIdle
    /\ LateIdle
    /\ fault = NoFault
    /\ writers = << >>
    /\ sink = << >>
    /\ hs = << >>
    /\ mask \in {[orig |-> b, buf |-> b, key |-> k, applied |-> 0] :
                    b \in MaskBuffers, k \in MaskKeys}

UnmaskPayloadAct ==
    /\ mask.applied < MaxUnmask
    /\ mask' = [mask EXCEPT !.buf = << >> \o UnmaskPayload(mask.buf, mask.key),
                            !.applied = @ + 1]
    /\ UNCHANGED <<connVars, codecVars, fault, writers, sink, hs, lateVars>>

NextMask == UnmaskPayloadAct

SpecMask == InitMask /\ [][NextMask]_vars

(***************************************************************************)
(* Opening handshake (internal/infrastructure/handshake.go).  A Go string  *)
(* is modelled by the sequence of its code points.                         *)
(***************************************************************************)
\* "258EAFA5-E914-47DA-95CA-C5AB0DC85B11"
WebSocketGUID == <<50, 53, 56, 69, 65, 70, 65, 53, 45, 69, 57, 49, 52, 45, 52, 55, 68, 65, 45, 57, 53, 67, 65, 45, 67, 53, 65, 66, 48, 68, 67, 56, 53, 66, 49, 49>>
\* "13"
WebSocketVersion == <<49, 51>>
\* "websocket"
HeaderValueWebSocket == <<119, 101, 98, 115, 111, 99, 107, 101, 116>>
\* "Upgrade"
HeaderValueUpgrade == <<85, 112, 103, 114, 97, 100, 101>>
HeaderUpgrade == "Upgrade"
HeaderConnection == "Connection"
HeaderSecWebSocketKey == "Sec-WebSocket-Key"
HeaderSecWebSocketAccept == "Sec-WebSocket-Accept"
HeaderSecWebSocketVersion == "Sec-WebSocket-Version"

\* crypto/sha1 on 32-bit words, a word held as <<high 16 bits, low 16 bits>>
NibbleAnd == << >> \o [k \in 1..256 |-> BitAnd((k - 1) \div 16, (k - 1) % 16)]
AndOctet(a, b) ==
    16 * NibbleAnd[(a \div 16) * 16 + (b \div 16) + 1] + NibbleAnd[(a % 16) * 16 + (b % 16) + 1]
Xor16(a, b) == 256 * XorOctet(a \div 256, b \div 256) + XorOctet(a % 256, b % 256)
And16(a, b) == 256 * AndOctet(a \div 256, b \div 256) + AndOctet(a % 256, b % 256)
Xor32(x, y) == <<Xor16(x[1], y[1]), Xor16(x[2], y[2])>>
And32(x, y) == <<And16(x[1], y[1]), And16(x[2], y[2])>>
Not32(x) == <<65535 - x[1], 65535 - x[2]>>
Add32(x, y) ==
    <<(x[1] + y[1] + ((x[2] + y[2]) \div 65536)) % 65536, (x[2] + y[2]) % 65536>>
\* bits.RotateLeft32(x, n), 0 < n < 32
RotateLeft32(x, n) ==
    IF n >= 16
    THEN IF n = 16 THEN <<x[2], x[1]>>
         ELSE <<((x[2] * 2^(n - 16)) % 65536) + x[1] \div 2^(32 - n),
                ((x[1] * 2^(n - 16)) % 65536) + x[2] \div 2^(32 - n)>>
    ELSE <<((x[1] * 2^n) % 65536) + x[2] \div 2^(16 - n),
           ((x[2] * 2^n) % 65536) + x[1] \div 2^(16 - n)>>

\* the message followed by 0x80, zeros and its length in bits as 8 octets,
\* a multiple of 64 octets in all
Sha1Pad(msg) ==
    LET zeros == (119 - (Len(msg) % 64)) % 64
    IN msg \o <<128>> \o [i \in 1..zeros |-> 0] \o BigEndianPut(Len(msg) * 8, 8)

\* the 16 words of the block that starts at octet `at` + 1
Sha1BlockWords(octets, at) ==
    [t \in 1..16 |-> <<octets[at + 4 * t - 3] * 256 + octets[at + 4 * t - 2],
                       octets[at + 4 * t - 1] * 256 + octets[at + 4 * t]>>]

\* the message schedule, w[1..80]
RECURSIVE Sha1Schedule(_)
Sha1Schedule(w) ==
    IF Len(w) = 80 THEN w
    ELSE LET t == Len(w) + 1
         IN Sha1Schedule(Append(w,
               RotateLeft32(Xor32(Xor32(w[t - 3], w[t - 8]), Xor32(w[t - 14], w[t - 16])), 1)))

\* round t (0..79) on the working variables v = <<a, b, c, d, e>>
Sha1Round(v, w, t) ==
    LET f == IF t < 20 THEN Xor32(And32(v[2], v[3]), And32(Not32(v[2]), v[4]))
             ELSE IF t < 40 THEN Xor32(Xor32(v[2], v[3]), v[4])
             ELSE IF t < 60 THEN Xor32(Xor32(And32(v[2], v[3]), And32(v[2], v[4])),
                                       And32(v[3], v[4]))
             ELSE Xor32(Xor32(v[2], v[3]), v[4])
        k == IF t < 20 THEN <<23170, 31129>>
             ELSE IF t < 40 THEN <<28377, 60321>>
             ELSE IF t < 60 THEN <<36635, 48348>>
             ELSE <<51810, 49622>>
    IN <<Add32(Add32(Add32(Add32(RotateLeft32(v[1], 5), f), v[5]), w[t + 1]), k),
         v[1], RotateLeft32(v[2], 30), v[3], v[4]>>

RECURSIVE Sha1Rounds(_, _, _)
\* (v is looked at in every round, so that it is computed round by round)
Sha1Rounds(v, w, t) ==
    IF t = 80 \/ Len(v) # 5 THEN v ELSE Sha1Rounds(Sha1Round(v, w, t), w, t + 1)

\* the digest state h after the blocks from octet `at` + 1 on
RECURSIVE Sha1Blocks(_, _, _)
Sha1Blocks(h, octets, at) ==
    IF at >= Len(octets) THEN h
    ELSE LET v == Sha1Rounds(h, Sha1Schedule(<< >> \o Sha1BlockWords(octets, at)), 0)
         IN Sha1Blocks([i \in 1..5 |-> Add32(h[i], v[i])], octets, at + 64)

RECURSIVE WordOctets(_)
WordOctets(ws) ==
    IF ws = << >> THEN << >>
    ELSE <<ws[1][1] \div 256, ws[1][1] % 256, ws[1][2] \div 256, ws[1][2] % 256>>
            \o WordOctets(Tail(ws))

\* sha1.Sum(data): the 20 octets of the digest
Sha1Sum(data) ==
    WordOctets(<< >> \o Sha1Blocks(<<<<26437, 8961>>, <<61389, 43913>>, <<39098, 56574>>,
                                     <<4146, 21622>>, <<50130, 57840>>>>,
                                   << >> \o Sha1Pad(data), 0))

\* "ABCDEFGHIJKLMNOPQRSTUVWXYZabcdefghijklmnopqrstuvwxyz0123456789+/"
Base64Alphabet ==
    <<65, 66, 67, 68, 69, 70, 71, 72, 73, 74, 75, 76, 77, 78, 79, 80, 81, 82, 83, 84, 85, 86, 87, 88, 89, 90, 97, 98, 99, 100, 101, 102, 103, 104, 105, 106, 107, 108, 109, 110, 111, 112, 113, 114, 115, 116, 117, 118, 119, 120, 121, 122, 48, 49, 50, 51, 52, 53, 54, 55, 56, 57, 43, 47>>

\* base64.StdEncoding.EncodeToString(src)
RECURSIVE Base64Encode(_)
Base64Encode(src) ==
    IF Len(src) = 0 THEN << >>
    ELSE IF Len(src) = 1
    THEN <<Base64Alphabet[src[1] \div 4 + 1], Base64Alphabet[(src[1] % 4) * 16 + 1], 61, 61>>
    ELSE IF Len(src) = 2
    THEN <<Base64Alphabet[src[1] \div 4 + 1],
           Base64Alphabet[(src[1] % 4) * 16 + src[2] \div 16 + 1],
           Base64Alphabet[(src[2] % 16) * 4 + 1], 61>>
    ELSE <<Base64Alphabet[src[1] \div 4 + 1],
           Base64Alphabet[(src[1] % 4) * 16 + src[2] \div 16 + 1],
           Base64Alphabet[(src[2] % 16) * 4 + src[3] \div 64 + 1],
           Base64Alphabet[(src[3] % 64) + 1]>> \o Base64Encode(SubSeq(src, 4, Len(src)))

\* mutant: the GUID is left out of the digest
GenerateAcceptKey_KeyOnly(key) == Base64Encode(Sha1Sum(key))

\* h.GenerateAcceptKey(key)
GenerateAcceptKey(key) == Base64Encode(Sha1Sum(key \o WebSocketGUID))

\* unicode.SimpleFold brings the runes of one orbit together: the letters
\* A-Z with a-z, and with k and s also U+212A KELVIN SIGN and U+017F LATIN
\* SMALL LETTER LONG S (the orbits of the other runes the model uses are
\* single runes)
FoldRune(r) ==
    IF r >= 65 /\ r <= 90 THEN r + 32
    ELSE IF r = 8490 THEN 107
    ELSE IF r = 383 THEN 115
    ELSE r

\* strings.EqualFold(s, t)
EqualFold(s, t) ==
    /\ Len(s) = Len(t)
    /\ \A i \in 1..Len(s) : FoldRune(s[i]) = FoldRune(t[i])

\* unicode.IsSpace, for the runes below U+0100
IsSpace(r) == r \in {9, 10, 11, 12, 13, 32, 133, 160}

\* strings.TrimSpace(s)
RECURSIVE TrimSpace(_)
TrimSpace(s) ==
    IF s = << >> THEN s
    ELSE IF IsSpace(s[1]) THEN TrimSpace(Tail(s))
    ELSE IF IsSpace(s[Len(s)]) THEN TrimSpace(SubSeq(s, 1, Len(s) - 1))
    ELSE s

\* strings.Split(s, ","): the pieces between the commas, at least one
RECURSIVE SplitComma(_)
SplitComma(s) ==
    IF \A i \in 1..Len(s) : s[i] # 44 THEN <<s>>
    ELSE LET i == CHOOSE j \in 1..Len(s) : s[j] = 44 /\ \A k \in 1..(j - 1) : s[k] # 44
         IN <<SubSeq(s, 1, i - 1)>> \o SplitComma(SubSeq(s, i + 1, Len(s)))

\* mutant: the token may be the start of a longer one
containsToken_Prefix(header, token) ==
    \E i \in 1..Len(SplitComma(header)) :
        /\ Len(TrimSpace(SplitComma(header)[i])) >= Len(token)
        /\ EqualFold(SubSeq(TrimSpace(SplitComma(header)[i]), 1, Len(token)), token)

\* containsToken(header, token)
containsToken(header, token) ==
    \E i \in 1..Len(SplitComma(header)) :
        EqualFold(TrimSpace(SplitComma(header)[i]), token)

\* req.Header.Get(name): the first value of the header, "" without one.
\* A request's Header maps each name to the values of its header lines.
HeaderGet(header, name) ==
    IF header[name] = << >> THEN << >> ELSE header[name][1]

\* fmt.Errorf(format, args...): an error with no sentinel behind it
Errorf(format, args) == [kind |-> "fmt.Errorf", msg |-> <<format>> \o args]

\* mutant: the version is looked at first
ValidateRequest_VersionFirst(req) ==
    IF HeaderGet(req, HeaderSecWebSocketVersion) # WebSocketVersion
    THEN Errorf("unsupported WebSocket version: expected '%s', got '%s'",
                <<WebSocketVersion, HeaderGet(req, HeaderSecWebSocketVersion)>>)
    ELSE IF ~EqualFold(HeaderGet(req, HeaderUpgrade), HeaderValueWebSocket)
    THEN Errorf("missing or invalid Upgrade header: expected 'websocket', got '%s'",
                <<HeaderGet(req, HeaderUpgrade)>>)
    ELSE IF ~containsToken(HeaderGet(req, HeaderConnection), HeaderValueUpgrade)
    THEN Errorf("missing or invalid Connection header: expected 'Upgrade', got '%s'",
                <<HeaderGet(req, HeaderConnection)>>)
    ELSE IF HeaderGet(req, HeaderSecWebSocketKey) = << >>
    THEN Errorf("missing Sec-WebSocket-Key header", << >>)
    ELSE NilError

\* h.ValidateRequest(req), req given by its Header
ValidateRequest(req) ==
    IF ~EqualFold(HeaderGet(req, HeaderUpgrade), HeaderValueWebSocket)
    THEN Errorf("missing or invalid Upgrade header: expected 'websocket', got '%s'",
                <<HeaderGet(req, HeaderUpgrade)>>)
    ELSE IF ~containsToken(HeaderGet(req, HeaderConnection), HeaderValueUpgrade)
    THEN Errorf("missing or invalid Connection header: expected 'Upgrade', got '%s'",
                <<HeaderGet(req, HeaderConnection)>>)
    ELSE IF HeaderGet(req, HeaderSecWebSocketKey) = << >>
    THEN Errorf("missing Sec-WebSocket-Key header", << >>)
    ELSE IF HeaderGet(req, HeaderSecWebSocketVersion) # WebSocketVersion
    THEN Errorf("unsupported WebSocket version: expected '%s', got '%s'",
                <<WebSocketVersion, HeaderGet(req, HeaderSecWebSocketVersion)>>)
    ELSE NilError

\* An http.ResponseWriter, as httptest.NewRecorder() records it: the header
\* map, the status codes WriteHeader was called with, the body written.
StatusSwitchingProtocols == 101
StatusBadRequest == 400
NewRecorder == [header |-> {}, statuses |-> << >>, body |-> << >>]

\* w.Header().Set(name, value)
HeaderSet(w, name, value) ==
    [w EXCEPT !.header = {e \in @ : e.name # name} \cup {[name |-> name, value |-> value]}]

\* w.WriteHeader(code)
ResponseWriteHeader(w, code) == [w EXCEPT !.statuses = Append(@, code)]

\* http.Error(w, error, code): the plain-text headers, the status, and the
\* text with a newline as the body
HttpError(w, error, code) ==
    [ResponseWriteHeader(HeaderSet(HeaderSet(w,
         "Content-Type", <<116, 101, 120, 116, 47, 112, 108, 97, 105, 110, 59, 32, 99, 104, 97, 114, 115, 101, 116, 61, 117, 116, 102, 45, 56>>),
         "X-Content-Type-Options", <<110, 111, 115, 110, 105, 102, 102>>), code)
     EXCEPT !.body = Append(@, error \o <<"\n">>)]

\* mutant: the Connection header of the response is forgotten
SwitchingProtocols_NoConnection(w, acceptKey) ==
    ResponseWriteHeader(HeaderSet(HeaderSet(w,
        HeaderUpgrade, HeaderValueWebSocket),
        HeaderSecWebSocketAccept, acceptKey), StatusSwitchingProtocols)

\* the 101 response of PerformUpgrade
SwitchingProtocols(w, acceptKey) ==
    ResponseWriteHeader(HeaderSet(HeaderSet(HeaderSet(w,
        HeaderUpgrade, HeaderValueWebSocket),
        HeaderConnection, HeaderValueUpgrade),
        HeaderSecWebSocketAccept, acceptKey), StatusSwitchingProtocols)

\* mutant: after the 400 response the error is not handed to the caller
PerformUpgrade_SwallowError(w, req) ==
    IF ValidateRequest(req) # NilError
    THEN [w |-> HttpError(w, <<"Bad Request: ">> \o ValidateRequest(req).msg, StatusBadRequest),
          err |-> NilError]
    ELSE [w |-> SwitchingProtocols(w, GenerateAcceptKey(HeaderGet(req, HeaderSecWebSocketKey))),
          err |-> NilError]

\* h.PerformUpgrade(w, req): the writer afterwards and the error returned
PerformUpgrade(w, req) ==
    IF ValidateRequest(req) # NilError
    THEN [w |-> HttpError(w, <<"Bad Request: ">> \o ValidateRequest(req).msg, StatusBadRequest),
          err |-> ValidateRequest(req)]
    ELSE [w |-> SwitchingProtocols(w, GenerateAcceptKey(HeaderGet(req, HeaderSecWebSocketKey))),
          err |-> NilError]


(***************************************************************************)
(* SpecHandshake: ValidateRequest and PerformUpgrade on requests whose     *)
(* four handshake headers are absent, valid, or invalid in some way, each  *)
(* PerformUpgrade on a response recorder of its own.                       *)
(***************************************************************************)
\* the RFC 6455 sample key "dGhlIHNhbXBsZSBub25jZQ=="
SampleKey == <<100, 71, 104, 108, 73, 72, 78, 104, 98, 88, 66, 115, 90, 83, 66, 117, 98, 50, 53, 106, 90, 81, 61, 61>>

\* the values of one header of a request: none, or the value of each line
UpgradeValues ==
    {<< >>,
     <<HeaderValueWebSocket>>,
     <<<<87, 101, 98, 83, 111, 99, 107, 101, 116>>>>,                  \* "WebSocket"
     <<<<87, 69, 66, 83, 79, 67, 75, 69, 84>>>>,                    \* "WEBSOCKET"
     <<<<119, 101, 98, 115, 111, 99, 8490, 101, 116>>>>,                \* "websoc" U+212A "et"
     <<<<119, 101, 98, 383, 111, 99, 107, 101, 116>>>>,                 \* "web" U+017F "ocket"
     <<<<119, 101, 98, 115, 111, 99, 107, 101, 116, 115>>>>,          \* "websockets"
     <<<<104, 50, 99>>>>,                                                \* "h2c"
     <<<< >>>>}                                                          \* ""
ConnectionValues ==
    {<< >>,
     <<HeaderValueUpgrade>>,
     <<<<117, 112, 103, 114, 97, 100, 101>>>>,                        \* "upgrade"
     <<<<107, 101, 101, 112, 45, 97, 108, 105, 118, 101, 44, 32, 85, 112, 103, 114, 97, 100, 101>>>>,  \* "keep-alive, Upgrade"
     <<<<107, 101, 101, 112, 45, 97, 108, 105, 118, 101, 44, 9, 85, 80, 71, 82, 65, 68, 69, 32, 44, 120>>>>,  \* "keep-alive,\tUPGRADE ,x"
     <<<<107, 101, 101, 112, 45, 97, 108, 105, 118, 101>>>>,          \* "keep-alive"
     <<<<85, 112, 103, 114, 97, 100, 101, 115>>>>,                    \* "Upgrades"
     <<<<85, 112, 32, 103, 114, 97, 100, 101>>>>,                     \* "Up grade"
     <<<<107, 101, 101, 112, 45, 97, 108, 105, 118, 101>>, HeaderValueUpgrade>>}  \* two lines
KeyValues == {<< >>, <<<< >>>>, <<SampleKey>>, <<<<97>>>>}
VersionValues ==
    {<< >>, <<WebSocketVersion>>, <<<<49, 50>>>>, <<<<49, 51, 32>>>>, <<<<48, 49, 51>>>>}

Requests ==
    {(HeaderUpgrade :> u) @@ (HeaderConnection :> c)
        @@ (HeaderSecWebSocketKey :> k) @@ (HeaderSecWebSocketVersion :> v) :
        u \in UpgradeValues, c \in ConnectionValues, k \in KeyValues, v \in VersionValues}

NoRequest ==
    (HeaderUpgrade :> << >>) @@ (HeaderConnection :> << >>)
        @@ (HeaderSecWebSocketKey :> << >>) @@ (HeaderSecWebSocketVersion :> << >>)

NoHs == [op |-> "none", req |-> NoRequest, err |-> NilError, w |-> NewRecorder,
         calls |-> << >>]

HsIdle ==
    /\ ConnIdle
    /\ CodecIdle
    /\ LateIdle
    /\ fault = NoFault
    /\ writers = << >>
    /\ sink = << >>
    /\ mask = << >>

InitHandshake ==
    /\ HsIdle
    /\ hs = NoHs

ValidateRequestAct ==
    /\ hs.op = "none"
    /\ \E req \in Requests :
          hs' = [NoHs EXCEPT !.op = "ValidateRequest", !.req = req,
                             !.err = ValidateRequest(req)]
    /\ UNCHANGED <<connVars, codecVars, fault, writers, sink, mask, lateVars>>

PerformUpgradeAct ==
    /\ hs.op = "none"
    /\ \E req \in Requests : \E r \in {PerformUpgrade(NewRecorder, req)} :
          hs' = [NoHs EXCEPT !.op = "PerformUpgrade", !.req = req,
                             !.err = r.err, !.w = r.w]
    /\ UNCHANGED <<connVars, codecVars, fault, writers, sink, mask, lateVars>>

\* the next request arrives
NextRequestAct ==
    /\ hs.op # "none"
    /\ hs' = NoHs
    /\ UNCHANGED <<connVars, codecVars, fault, writers, sink, mask, lateVars>>

NextHandshake ==
    \/ ValidateRequestAct
    \/ PerformUpgradeAct
    \/ NextRequestAct

SpecHandshake == InitHandshake /\ [][NextHandshake]_vars

(***************************************************************************)
(* SpecAcceptKey: GenerateAcceptKey called a few times in a row, on the    *)
(* same key or on different ones.                                          *)
(***************************************************************************)
AcceptKeys ==
    {SampleKey, << >>, <<97>>, <<98>>, <<97, 98>>, <<98, 97>>, <<65>>,
     SubSeq(SampleKey, 1, 23), SampleKey \o <<61>>, WebSocketGUID,
     SampleKey \o SampleKey \o SampleKey \o SampleKey}

GenerateAcceptKeyAct ==
    /\ Len(hs.calls) < MaxAcceptCalls
    /\ \E key \in AcceptKeys :
          hs' = [hs EXCEPT !.op = "GenerateAcceptKey",
                           !.calls = Append(@, [key |-> key, accept |-> GenerateAcceptKey(key)])]
    /\ UNCHANGED <<connVars, codecVars, fault, writers, sink, mask, lateVars>>

NextAcceptKey == GenerateAcceptKeyAct

SpecAcceptKey == InitHandshake /\ [][NextAcceptKey]_vars

(***************************************************************************)
(* SpecLimit: the size limit of a parser.  A parser is constructed with    *)
(* some maxPayloadSize, zero included, and a peer sends data frames whose  *)
(* declared length lies on either side of the parser's limit.  A frame     *)
(* within the limit is on the stream in full; of a frame beyond it the     *)
(* header and the first payload octets have arrived when ReadFrame runs.   *)
(***************************************************************************)
LimitSizes == {0, 1, 125, 2000, 1048576}
LimitOpcodes == {OpcodeContinuation, OpcodeText, OpcodeBinary}

\* the frames a peer sends to a parser whose limit is `limit`
LimitFrames(limit) ==
    {[frame |-> MkFrame(fin, NoRsv, op, <<FALSE, ZeroKey>>, n, Fill(n)),
      enc |-> IF n <= 125 THEN 7 ELSE IF n <= 65535 THEN 16 ELSE 64] :
        fin \in Booleans, op \in LimitOpcodes, n \in {limit - 1, limit}}
    \cup
    {[frame |-> MkFrame(fin, NoRsv, op, <<FALSE, ZeroKey>>, n, Fill(3)),
      enc |-> IF n <= 125 THEN 7 ELSE IF n <= 65535 THEN 16 ELSE 64] :
        fin \in Booleans, op \in LimitOpcodes, n \in {limit + 1, limit + 2}}

InitLimit ==
    /\ ConnIdle
    /\ AuxIdle
    /\ \E size \in LimitSizes :
          /\ maxPayloadSize = NewFrameParser(size)
          /\ codecRes = [NoCodecRes EXCEPT !.size = size]
    /\ wire = << >>
    /\ sent = << >>
    /\ received = << >>
    /\ desync = FALSE

LimitSendAct ==
    /\ codecRes.op = "none"
    /\ \E d \in LimitFrames(maxPayloadSize) :
          /\ wire' = PeerEncode(d.frame, d.enc)
          /\ codecRes' = [codecRes EXCEPT !.op = "PeerSend", !.src = "PeerSend",
                             !.frame = d.frame, !.enc = d.enc]
    /\ UNCHANGED <<maxPayloadSize, sent, received, desync, connVars, auxVars>>

LimitReadAct ==
    /\ codecRes.op = "PeerSend"
    /\ \E r \in {ReadFrame(maxPayloadSize, Source(wire, fault))} :
          /\ wire' = SubSeq(wire, r.consumed + 1, Len(wire))
          /\ codecRes' = [codecRes EXCEPT !.op = "ReadFrame", !.err = r.err,
                             !.out = r.frame, !.isNil = r.isNil,
                             !.consumed = r.consumed, !.alloc = r.alloc]
    /\ UNCHANGED <<maxPayloadSize, sent, received, desync, connVars, auxVars>>

\* the next frame arrives on a new buffer
LimitResetAct ==
    /\ codecRes.op = "ReadFrame"
    /\ wire' = << >>
    /\ codecRes' = [NoCodecRes EXCEPT !.size = codecRes.size]
    /\ UNCHANGED <<maxPayloadSize, sent, received, desync, connVars, auxVars>>

NextLimit ==
    \/ LimitSendAct
    \/ LimitReadAct
    \/ LimitResetAct

SpecLimit == InitLimit /\ [][NextLimit]_vars

(***************************************************************************)
(* SpecMessage: the way of an outgoing message.  A Message is made by one  *)
(* of its constructors or assembled by hand, may be validated, is turned   *)
(* into a frame by NewFrame(msg.ToOpcode(), msg.Payload), written with     *)
(* WriteFrame and read back with ReadFrame, as the property tests of the   *)
(* codec do.  NewFrame is also called with any opcode directly.            *)
(***************************************************************************)
MessageSizes == {0, 126}
MessagePayloads == {<< >>, <<7>>, Hello, Fill(125), Fill(126), Fill(200), Fill(65535), Fill(65536)}
MessageTypes == {MessageTypeText, MessageTypeBinary, MessageTypeUnknown}
FrameOpcodes == 0..15

NoMessage == [Type |-> -1, Payload |-> << >>]

NoFlow ==
    [pc |-> "none", m |-> NoMessage, validated |-> FALSE, verr |-> NilError,
     opcode |-> 0, payload |-> << >>, frame |-> ZeroFrame,
     werr |-> NilError, writes |-> << >>,
     rerr |-> NilError, isNil |-> TRUE, out |-> ZeroFrame]

InitMessage ==
    /\ ConnIdle
    /\ fault = NoFault
    /\ writers = << >>
    /\ sink = << >>
    /\ mask = << >>
    /\ hs = << >>
    /\ race = << >>
    /\ maxPayloadSize \in {NewFrameParser(size) : size \in MessageSizes}
    /\ wire = << >>
    /\ sent = << >>
    /\ received = << >>
    /\ desync = FALSE
    /\ codecRes = NoCodecRes
    /\ msgFlow = NoFlow

\* NewTextMessage(payload), NewBinaryMessage(payload) or &Message{Type: t, Payload: payload}
NewMessageAct ==
    /\ msgFlow.pc = "none"
    /\ \E t \in MessageTypes, payload \in MessagePayloads :
          msgFlow' = [NoFlow EXCEPT !.pc = "message",
                        !.m = CASE t = MessageTypeText -> NewTextMessage(payload)
                                [] t = MessageTypeBinary -> NewBinaryMessage(payload)
                                [] OTHER -> [Type |-> t, Payload |-> payload]]
    /\ UNCHANGED <<connVars, codecVars, fault, writers, sink, mask, hs, race>>

MessageValidateAct ==
    /\ msgFlow.pc = "message"
    /\ ~msgFlow.validated
    /\ msgFlow' = [msgFlow EXCEPT !.validated = TRUE, !.verr = MessageValidate(msgFlow.m)]
    /\ UNCHANGED <<connVars, codecVars, fault, writers, sink, mask, hs, race>>

\* domain.NewFrame(msg.ToOpcode(), msg.Payload)
MessageToFrameAct ==
    /\ msgFlow.pc = "message"
    /\ \E opcode \in {ToOpcode(msgFlow.m)} :
          msgFlow' = [msgFlow EXCEPT !.pc = "frame", !.opcode = opcode,
                        !.payload = msgFlow.m.Payload,
                        !.frame = NewFrame(opcode, msgFlow.m.Payload)]
    /\ UNCHANGED <<connVars, codecVars, fault, writers, sink, mask, hs, race>>

\* domain.NewFrame(opcode, payload) with any opcode
NewFrameAct ==
    /\ msgFlow.pc = "none"
    /\ \E opcode \in FrameOpcodes, payload \in MessagePayloads :
          msgFlow' = [NoFlow EXCEPT !.pc = "frame", !.opcode = opcode,
                        !.payload = payload, !.frame = NewFrame(opcode, payload)]
    /\ UNCHANGED <<connVars, codecVars, fault, writers, sink, mask, hs, race>>

\* parser.WriteFrame(&buf, frame)
FlowWriteAct ==
    /\ msgFlow.pc = "frame"
    /\ \E w \in {WriteFrame(msgFlow.frame)} :
          msgFlow' = [msgFlow EXCEPT !.pc = "written", !.werr = w.err, !.writes = w.writes]
    /\ UNCHANGED <<connVars, codecVars, fault, writers, sink, mask, hs, race>>

\* parser.ReadFrame(&buf)
FlowReadAct ==
    /\ msgFlow.pc = "written"
    /\ msgFlow.werr = NilError
    /\ \E r \in {ReadFrame(maxPayloadSize, Source(Flatten(msgFlow.writes), NoFault))} :
          msgFlow' = [msgFlow EXCEPT !.pc = "read", !.rerr = r.err,
                        !.isNil = r.isNil, !.out = r.frame]
    /\ UNCHANGED <<connVars, codecVars, fault, writers, sink, mask, hs, race>>

\* the next message
FlowResetAct ==
    /\ msgFlow.pc # "none"
    /\ msgFlow' = NoFlow
    /\ UNCHANGED <<connVars, codecVars, fault, writers, sink, mask, hs, race>>

NextMessage ==
    \/ NewMessageAct
    \/ MessageValidateAct
    \/ MessageToFrameAct
    \/ NewFrameAct
    \/ FlowWriteAct
    \/ FlowReadAct
    \/ FlowResetAct

SpecMessage == InitMessage /\ [][NextMessage]_vars

(***************************************************************************)
(* Properties of the connection lifecycle, checked under SpecConn          *)
(***************************************************************************)
\* the transitions the lifecycle permits, as a table
AllowedPairs ==
    {<<StateConnecting, StateOpen>>, <<StateConnecting, StateClosed>>,
     <<StateOpen, StateClosing>>, <<StateOpen, StateClosed>>,
     <<StateClosing, StateClosed>>}

\* C1: for every pair (from, to) of the four states, TransitionTo(to) called
\* in state from succeeds and sets State = to exactly when the pair is one of
\* the five permitted ones; for every other pair (self-loops included) it
\* returns an error wrapping ErrInvalidState and leaves State unchanged.
\* CanTransitionTo returns true for exactly the same pairs.
C1_TransitionMatrix ==
    /\ (connRes.op = "TransitionTo" /\ connRes.arg \in ConnectionStates) =>
          IF <<connRes.from, connRes.arg>> \in AllowedPairs
          THEN connRes.err = NilError /\ conns[connRes.conn].State = connRes.arg
          ELSE /\ connRes.err.kind = "ErrInvalidState"
               /\ conns[connRes.conn].State = connRes.from
    /\ (connRes.op = "CanTransitionTo" /\ connRes.arg \in ConnectionStates) =>
          (connRes.ret <=> <<connRes.from, connRes.arg>> \in AllowedPairs)

\* a self-loop Open -> Open was asked for and refused
C1_Witness ==
    /\ connRes.op = "TransitionTo"
    /\ connRes.from = StateOpen
    /\ connRes.arg = StateOpen
    /\ connRes.err.kind = "ErrInvalidState"
    /\ conns[connRes.conn].State = StateOpen

\* C2: a connection made by NewConnection starts in Connecting; once its
\* State is Closed, every TransitionTo call, to any of the four states
\* (Closed included), fails with ErrInvalidState and State stays Closed
\* in every later state.
C2_ClosedTerminal ==
    /\ [](connRes.op = "NewConnection" =>
             conns[connRes.conn].State = StateConnecting)
    /\ []((connRes.op = "TransitionTo" /\ connRes.from = StateClosed) =>
             /\ connRes.err.kind = "ErrInvalidState"
             /\ conns[connRes.conn].State = StateClosed)
    /\ [][\A i \in 1..Len(conns) :
             conns[i].State = StateClosed => conns'[i].State = StateClosed]_vars

\* TransitionTo(Closed) was called on a Closed connection and refused
C2_Witness ==
    /\ connRes.op = "TransitionTo"
    /\ connRes.from = StateClosed
    /\ connRes.arg = StateClosed
    /\ connRes.err.kind = "ErrInvalidState"
    /\ conns[connRes.conn].State = StateClosed

\* C27: with all calls on one Connection serialized, its State only moves
\* forward in the order Connecting < Open < Closing < Closed: over any
\* sequence of TransitionTo, CanTransitionTo, UpdateActivity and predicate
\* calls after NewConnection, State never decreases, it strictly increases
\* on every successful TransitionTo, and so at most three TransitionTo calls
\* succeed in the lifetime of a connection.
C27_StateForwardOnly ==
    /\ [][\A i \in 1..Len(conns) :
             /\ conns'[i].State >= conns[i].State
             /\ conns'[i].State \in {StateConnecting, StateOpen, StateClosing, StateClosed}]_vars
    /\ []((connRes.op = "TransitionTo" /\ connRes.err = NilError) =>
             conns[connRes.conn].State > connRes.from)
    /\ []((connRes.op \notin {"none", "TransitionTo"}) =>
             conns[connRes.conn].State = connRes.from)
    /\ [](\A i \in 1..Len(conns) : succeeded[i] <= 3)

\* a connection went Connecting, Open, Closing, Closed: three successful calls
C27_Witness ==
    /\ connRes.op = "TransitionTo"
    /\ connRes.err = NilError
    /\ connRes.from = StateClosing
    /\ conns[connRes.conn].State = StateClosed
    /\ succeeded[connRes.conn] = 3

\* C31: teardown can always be recorded: from each of the three non-Closed
\* states one TransitionTo(Closed) succeeds, so in every reachable state of
\* a serialized connection either State = Closed or Closed is one step away;
\* no reachable state is stuck short of Closed.
C31_ClosedAlwaysReachable ==
    /\ \A i \in 1..Len(conns) :
          \/ conns[i].State = StateClosed
          \/ /\ conns[i].State \in {StateConnecting, StateOpen, StateClosing}
             /\ TransitionTo(conns[i], StateClosed).err = NilError
             /\ TransitionTo(conns[i], StateClosed).conn.State = StateClosed
    /\ (/\ connRes.op = "TransitionTo"
        /\ connRes.arg = StateClosed
        /\ connRes.from # StateClosed) =>
          /\ connRes.err = NilError
          /\ conns[connRes.conn].State = StateClosed

\* a connection still Connecting was closed by one call
C31_Witness ==
    /\ connRes.op = "TransitionTo"
    /\ connRes.arg = StateClosed
    /\ connRes.from = StateConnecting
    /\ connRes.err = NilError
    /\ conns[connRes.conn].State = StateClosed
    /\ succeeded[connRes.conn] = 1

(***************************************************************************)
(* Properties of connections side by side, checked under SpecIndep         *)
(***************************************************************************)
\* the step is a call of `op`: every call records itself in connRes, and
\* only the passing of time leaves connRes alone
CallOf(op) == now' = now /\ connRes'.op = op

\* the entries of the Metadata map of connection i
MetadataOf(i) == maps[conns[i].Metadata]

UpdateActivityEffect ==
    CallOf("UpdateActivity") =>
        LET i == connRes'.conn IN
        /\ connRes'.err = NilError
        /\ conns'[i].LastActivity = now
        /\ conns' = [conns EXCEPT ![i].LastActivity = now]
        /\ maps' = maps

TransitionToEffect ==
    CallOf("TransitionTo") =>
        LET i == connRes'.conn IN
        /\ conns'[i].LastActivity = conns[i].LastActivity
        /\ conns'[i].ID = conns[i].ID
        /\ conns'[i].RemoteAddr = conns[i].RemoteAddr
        /\ conns'[i].Metadata = conns[i].Metadata
        /\ maps' = maps
        /\ connRes'.err # NilError => conns' = conns

\* C37: UpdateActivity is permitted in every state, Closed included (it never
\* fails), and changes only last_activity: State, ID, RemoteAddr and Metadata
\* are unchanged by it; TransitionTo, successful or failed, never changes
\* last_activity, ID, RemoteAddr or Metadata.
C37_ActivityAndStateApart ==
    [][UpdateActivityEffect /\ TransitionToEffect]_vars

\* a Closed connection with an entry in its Metadata was stamped at a later
\* time, and is still Closed with the entry
C37_Witness ==
    /\ connRes.op = "UpdateActivity"
    /\ conns[connRes.conn].State = StateClosed
    /\ conns[connRes.conn].LastActivity = 1
    /\ MetadataOf(connRes.conn) = {[key |-> "user", value |-> "bob"]}
    /\ succeeded[connRes.conn] = 3

\* what a connection shows of itself
Observable(cs, ms, j) ==
    [State |-> cs[j].State, LastActivity |-> cs[j].LastActivity,
     Metadata |-> ms[cs[j].Metadata]]

IndependentStep ==
    /\ \A j \in 1..Len(conns) :
          /\ j <= Len(conns')
          /\ Observable(conns', maps', j) # Observable(conns, maps, j) =>
                /\ connRes'.conn = j
                /\ connRes'.op \in {"TransitionTo", "UpdateActivity", "MetadataWrite"}
    /\ CallOf("NewConnection") =>
          LET n == connRes'.conn IN
          /\ n = Len(conns) + 1 /\ Len(conns') = n
          /\ Observable(conns', maps', n) =
                [State |-> StateConnecting, LastActivity |-> now, Metadata |-> {}]
          /\ \A j \in 1..Len(conns) : conns'[j].Metadata # conns'[n].Metadata

\* C38: connections are independent: each NewConnection call returns a
\* Connection with its own State and its own freshly allocated empty Metadata
\* map, and for any two distinct Connections and any interleaving of
\* operations on them, TransitionTo, UpdateActivity or a Metadata write on one
\* never changes the State, last_activity or Metadata of the other.
C38_ConnectionsIndependent ==
    [][IndependentStep]_vars

\* the first connection was opened, stamped and written to, then closed, and
\* the second is as NewConnection returned it
C38_Witness ==
    /\ Len(conns) >= 2
    /\ connRes.op = "TransitionTo" /\ connRes.conn = 1
    /\ Observable(conns, maps, 1) =
          [State |-> StateClosed, LastActivity |-> 1,
           Metadata |-> {[key |-> "user", value |-> "alice"]}]
    /\ Observable(conns, maps, 2) =
          [State |-> StateConnecting, LastActivity |-> 0, Metadata |-> {}]
    /\ conns[1].Metadata # conns[2].Metadata

(***************************************************************************)
(* Properties of unserialized calls, checked under SpecRace                *)
(***************************************************************************)
\* C28: TransitionTo is an unsynchronized check-then-set.  A call returns
\* nil exactly when its own check passed on the State it read, and then
\* stores its argument over whatever State holds by then: two concurrent
\* calls (TransitionTo(Closing) and TransitionTo(Closed), both started in
\* Open) can both pass the check and both return nil, and the later
\* assignment can overwrite Closed with Closing, an edge the matrix forbids
\* out of the terminal state.
C28_CheckThenSet ==
    /\ \A g \in Callers :
          /\ race.calls[g].pc = "passed" =>
                <<race.calls[g].seen, race.calls[g].arg>> \in AllowedPairs
          /\ race.calls[g].pc = "refused" =>
                <<race.calls[g].seen, race.calls[g].arg>> \notin AllowedPairs
          /\ race.calls[g].pc = "returned" =>
                ((race.calls[g].err = NilError) <=>
                    (<<race.calls[g].seen, race.calls[g].arg>> \in AllowedPairs))
    /\ \A g \in Callers :
          (race.last.by = g /\ race.calls[g].pc = "returned"
                           /\ race.calls[g].err = NilError) =>
             /\ race.last.to = race.calls[g].arg
             /\ race.conn.State = race.calls[g].arg

\* both calls have returned nil and the stored State went from Closed to Closing
C28_Witness ==
    /\ \A g \in Callers : race.calls[g].pc = "returned" /\ race.calls[g].err = NilError
    /\ \E g \in Callers : race.calls[g].arg = StateClosed /\ race.calls[g].seen = StateOpen
    /\ race.last.from = StateClosed
    /\ race.last.to = StateClosing
    /\ race.calls[race.last.by].seen = StateOpen
    /\ race.conn.State = StateClosing

(***************************************************************************)
(* Properties of the frame codec, checked under SpecCodec                  *)
(***************************************************************************)
RecognizedOpcodes == {0, 1, 2, 8, 9, 10}
ControlOpcodes == {8, 9, 10}
AnyRsv(f) == f.RSV1 \/ f.RSV2 \/ f.RSV3

\* a structurally valid frame, in the words of the data model
StructurallyValid(f) ==
    /\ f.Opcode \in RecognizedOpcodes
    /\ ~AnyRsv(f)
    /\ Len(f.Payload) = f.PayloadLen
    /\ f.Opcode \in ControlOpcodes => (f.FIN /\ f.PayloadLen <= 125)

\* equal in fin, rsv1-3, opcode, masked, payload_len, the key when masked,
\* and the payload octets
SameFrame(a, b) ==
    /\ a.FIN = b.FIN
    /\ a.RSV1 = b.RSV1 /\ a.RSV2 = b.RSV2 /\ a.RSV3 = b.RSV3
    /\ a.Opcode = b.Opcode
    /\ a.Masked = b.Masked
    /\ a.PayloadLen = b.PayloadLen
    /\ b.Masked => a.MaskingKey = b.MaskingKey
    /\ a.Payload = b.Payload

\* the extended-length octets of the frame on the stream: 0, 2 or 8
ExtOctets ==
    IF codecRes.src = "PeerSend"
    THEN (IF codecRes.enc = 7 THEN 0 ELSE IF codecRes.enc = 16 THEN 2 ELSE 8)
    ELSE (IF codecRes.frame.PayloadLen <= 125 THEN 0
          ELSE IF codecRes.frame.PayloadLen <= 65535 THEN 2 ELSE 8)

\* the octets of the frame that follow its length field
BodyOctets == (IF codecRes.frame.Masked THEN 4 ELSE 0) + codecRes.frame.PayloadLen

\* C3: for every structurally valid frame f with payload_len <=
\* max_payload_size, WriteFrame(f) succeeds and ReadFrame on the octets it
\* emitted returns a frame equal to f in every field and payload octet.
C3_RoundTrip ==
    /\ (codecRes.op = "WriteFrame" /\ StructurallyValid(codecRes.frame)) =>
          (codecRes.err = NilError /\ wire # << >>)
    /\ (/\ codecRes.op = "ReadFrame"
        /\ codecRes.src = "WriteFrame"
        /\ StructurallyValid(codecRes.frame)
        /\ codecRes.frame.PayloadLen <= maxPayloadSize) =>
          /\ codecRes.err = NilError
          /\ ~codecRes.isNil
          /\ SameFrame(codecRes.out, codecRes.frame)
          /\ wire = << >>

\* a masked Binary fragment of 126 payload octets went through WriteFrame and
\* ReadFrame
C3_Witness ==
    /\ codecRes.op = "ReadFrame"
    /\ codecRes.src = "WriteFrame"
    /\ codecRes.frame.Opcode = OpcodeBinary
    /\ codecRes.frame.Masked
    /\ ~codecRes.frame.FIN
    /\ codecRes.frame.PayloadLen = 126
    /\ codecRes.err = NilError
    /\ codecRes.out.Payload = codecRes.frame.Payload

\* C4: ReadFrame rejects with ErrInvalidOpcode every frame whose opcode is
\* not one of 0x0, 0x1, 0x2, 0x8, 0x9, 0xA, and never returns a Frame
\* carrying such an opcode.
C4_InvalidOpcodeRejected ==
    /\ (/\ codecRes.op = "ReadFrame"
        /\ codecRes.src = "PeerSend"
        /\ codecRes.frame.Opcode \notin RecognizedOpcodes) =>
          (codecRes.err = ErrInvalidOpcode /\ codecRes.isNil)
    /\ (codecRes.op = "ReadFrame" /\ ~codecRes.isNil) =>
          codecRes.out.Opcode \in RecognizedOpcodes

\* C5: a frame with a recognized opcode and clear reserved bits that declares
\* payload_len > max_payload_size is refused with ErrPayloadTooLarge after
\* the 2 header octets and the extended-length octets alone were consumed:
\* the masking key and the payload stay on the stream and no payload buffer
\* is allocated.  A frame declaring payload_len = max_payload_size is not
\* refused for its size.
C5_SizeEnforcedBeforePayload ==
    (/\ codecRes.op = "ReadFrame"
     /\ codecRes.frame.Opcode \in RecognizedOpcodes
     /\ ~AnyRsv(codecRes.frame)) =>
       /\ codecRes.frame.PayloadLen > maxPayloadSize =>
             /\ codecRes.err = ErrPayloadTooLarge
             /\ codecRes.isNil
             /\ codecRes.consumed = 2 + ExtOctets
             /\ codecRes.alloc = 0
             /\ Len(wire) = BodyOctets
       /\ codecRes.frame.PayloadLen = maxPayloadSize =>
             codecRes.err # ErrPayloadTooLarge

\* a masked frame declaring 201 octets in the 64-bit form was refused with
\* its key and payload still on the stream
C5_Witness ==
    /\ codecRes.op = "ReadFrame"
    /\ codecRes.enc = 64
    /\ codecRes.frame.Masked
    /\ codecRes.frame.PayloadLen = 201
    /\ codecRes.err = ErrPayloadTooLarge
    /\ codecRes.consumed = 10
    /\ Len(wire) = 205

\* C6: if the frame fails validation (unrecognized opcode, a reserved bit set,
\* a control frame with payload_len > 125 or fin = false, or a payload whose
\* length is not payload_len), WriteFrame returns the validation error and
\* writes no octet.
C6_ValidateBeforeWrite ==
    (codecRes.op = "WriteFrame" /\ ~StructurallyValid(codecRes.frame)) =>
       /\ codecRes.err # NilError
       /\ codecRes.err = Validate(codecRes.frame)
       /\ codecRes.writes = << >>
       /\ wire = << >>

\* a frame whose payload is not PayloadLen octets long was refused unwritten
C6_Witness ==
    /\ codecRes.op = "WriteFrame"
    /\ codecRes.frame.Opcode = OpcodeText
    /\ Len(codecRes.frame.Payload) # codecRes.frame.PayloadLen
    /\ codecRes.err = ErrInvalidFrameStructure
    /\ wire = << >>

\* C7: WriteFrame refuses a frame whose payload_len exceeds max_payload_size
\* and writes nothing, so every frame it emits is accepted by ReadFrame of a
\* parser with the same maximum.
C7_WriteEnforcesMaxSize ==
    /\ (codecRes.op = "WriteFrame" /\ codecRes.frame.PayloadLen > maxPayloadSize) =>
          (codecRes.err # NilError /\ wire = << >>)
    /\ (codecRes.op = "ReadFrame" /\ codecRes.src = "WriteFrame") =>
          codecRes.err = NilError

\* C8: a control frame (Close, Ping, Pong) with clear reserved bits and
\* payload_len <= max_payload_size is refused with ErrInvalidFrameStructure
\* when payload_len > 125 or fin = false, masked or not, before its masking
\* key or payload is read; with fin = true and payload_len <= 125 it is
\* accepted, masked or not.
C8_ControlShapeOnRead ==
    (/\ codecRes.op = "ReadFrame"
     /\ codecRes.frame.Opcode \in ControlOpcodes
     /\ ~AnyRsv(codecRes.frame)
     /\ codecRes.frame.PayloadLen <= maxPayloadSize) =>
       IF codecRes.frame.PayloadLen > 125 \/ ~codecRes.frame.FIN
       THEN /\ codecRes.err = ErrInvalidFrameStructure
            /\ codecRes.isNil
            /\ codecRes.consumed = 2 + ExtOctets
            /\ codecRes.alloc = 0
            /\ Len(wire) = BodyOctets
       ELSE /\ codecRes.err = NilError
            /\ ~codecRes.isNil
            /\ SameFrame(codecRes.out, codecRes.frame)

\* a masked, unfragmented Ping of 126 octets was refused for its shape
C8_Witness ==
    /\ codecRes.op = "ReadFrame"
    /\ codecRes.frame.Opcode = OpcodePing
    /\ codecRes.frame.Masked
    /\ codecRes.frame.FIN
    /\ codecRes.frame.PayloadLen = 126
    /\ codecRes.err = ErrInvalidFrameStructure
    /\ Len(wire) = 130

\* C9: a frame with a recognized opcode and any of the seven non-zero
\* combinations of RSV1, RSV2, RSV3 is refused with ErrReservedBitsSet after
\* the two fixed header octets alone were read.
C9_ReservedBitsOnRead ==
    (/\ codecRes.op = "ReadFrame"
     /\ codecRes.frame.Opcode \in RecognizedOpcodes
     /\ AnyRsv(codecRes.frame)) =>
       /\ codecRes.err = ErrReservedBitsSet
       /\ codecRes.isNil
       /\ codecRes.consumed = 2
       /\ Len(wire) = ExtOctets + BodyOctets

\* a frame with RSV2 and RSV3 set and RSV1 clear was refused, its 8
\* extended-length octets unread
C9_Witness ==
    /\ codecRes.op = "ReadFrame"
    /\ ~codecRes.frame.RSV1 /\ codecRes.frame.RSV2 /\ codecRes.frame.RSV3
    /\ codecRes.frame.Opcode = OpcodeBinary
    /\ codecRes.enc = 64
    /\ codecRes.err = ErrReservedBitsSet
    /\ codecRes.consumed = 2

\* C25: when an incoming frame violates several rules, ReadFrame reports the
\* first violated rule in the order opcode, reserved bits, size limit,
\* control-frame shape: an unrecognized opcode gives ErrInvalidOpcode even
\* with reserved bits set or an oversize length; reserved bits give
\* ErrReservedBitsSet even with an oversize length; a control frame
\* declaring more than max_payload_size gives ErrPayloadTooLarge, not
\* ErrInvalidFrameStructure, even if it is fragmented or longer than 125.
C25_ValidationOrder ==
    (codecRes.op = "ReadFrame" /\ codecRes.src = "PeerSend") =>
       codecRes.err =
          IF codecRes.frame.Opcode \notin RecognizedOpcodes THEN ErrInvalidOpcode
          ELSE IF AnyRsv(codecRes.frame) THEN ErrReservedBitsSet
          ELSE IF codecRes.frame.PayloadLen > maxPayloadSize THEN ErrPayloadTooLarge
          ELSE IF /\ codecRes.frame.Opcode \in ControlOpcodes
                  /\ (codecRes.frame.PayloadLen > 125 \/ ~codecRes.frame.FIN)
               THEN ErrInvalidFrameStructure
          ELSE NilError

\* C26: every Frame that ReadFrame returns without error is a validated
\* frame: its opcode is recognized, its reserved bits are clear, a control
\* frame has fin = true and payload_len <= 125, len(payload) = payload_len,
\* and payload_len <= max_payload_size; it passes Frame.Validate and can be
\* passed straight back to WriteFrame.
C26_ReturnedFrameValid ==
    (codecRes.op = "ReadFrame" /\ ~codecRes.isNil) =>
       /\ codecRes.err = NilError
       /\ StructurallyValid(codecRes.out)
       /\ codecRes.out.PayloadLen <= maxPayloadSize
       /\ Validate(codecRes.out) = NilError
       /\ WriteFrame(codecRes.out).err = NilError

\* the narrowest of the three length forms that carries n
MinimalEnc(n) == IF n <= 125 THEN 7 ELSE IF n <= 65535 THEN 16 ELSE 64

\* C29: ReadFrame accepts non-minimal length encodings: a frame whose 7-bit
\* length is 126 followed by a 16-bit value v <= 125, or 127 followed by a
\* 64-bit value v <= 65535, is decoded, for data and control opcodes alike
\* and subject to the other rules, into a frame with payload_len = v and
\* exactly v payload octets, the same frame (or the same refusal) as the
\* minimal encoding of the same content gives.
C29_NonMinimalLengthAccepted ==
    (/\ codecRes.op = "ReadFrame"
     /\ codecRes.src = "PeerSend"
     /\ codecRes.enc # MinimalEnc(codecRes.frame.PayloadLen)) =>
       LET f == codecRes.frame
           ref == ReadFrame(maxPayloadSize,
                            Source(PeerEncode(f, MinimalEnc(f.PayloadLen)), NoFault))
       IN /\ codecRes.err = ref.err
          /\ codecRes.isNil = ref.isNil
          /\ codecRes.out = ref.frame
          /\ (StructurallyValid(f) /\ f.PayloadLen <= maxPayloadSize) =>
                /\ codecRes.err = NilError
                /\ codecRes.out.PayloadLen = f.PayloadLen
                /\ Len(codecRes.out.Payload) = f.PayloadLen
                /\ SameFrame(codecRes.out, f)
                /\ wire = << >>

\* a masked Ping of 5 octets whose length came in the 64-bit form was accepted
C29_Witness ==
    /\ codecRes.op = "ReadFrame"
    /\ codecRes.enc = 64
    /\ codecRes.frame.Opcode = OpcodePing
    /\ codecRes.frame.Masked
    /\ codecRes.frame.PayloadLen = 5
    /\ codecRes.err = NilError
    /\ codecRes.out.PayloadLen = 5
    /\ codecRes.out.Payload = Fill(5)
    /\ codecRes.consumed = 19

(***************************************************************************)
(* Properties of a stream of frames, checked under SpecStream              *)
(***************************************************************************)
\* the octets of one frame on the stream: 2 header octets, 0, 2 or 8
\* extended-length octets, 4 key octets when masked, and the payload
FrameOctets(d) ==
    2 + (IF d.enc = 16 THEN 2
         ELSE IF d.enc = 64 THEN 8
         ELSE IF d.enc = 7 THEN 0
         ELSE IF d.frame.PayloadLen <= 125 THEN 0
         ELSE IF d.frame.PayloadLen <= 65535 THEN 2 ELSE 8)
      + (IF d.frame.Masked THEN 4 ELSE 0)
      + d.frame.PayloadLen

RECURSIVE OctetsFrom(_)
\* the octets of the frames sent from the i-th on
OctetsFrom(i) == IF i > Len(sent) THEN 0 ELSE FrameOctets(sent[i]) + OctetsFrom(i + 1)

\* C10: a successful ReadFrame consumes exactly the octets of one frame (the
\* 4 key octets of a masked frame also when its payload is empty), so the
\* frames ReadFrame returns are the frames put on the stream, in the order
\* written, none skipped, merged or duplicated; a read fails only on a frame
\* larger than the maximum payload size.
C10_StreamOrder ==
    /\ Len(received) <= Len(sent)
    /\ \A i \in 1..Len(received) : SameFrame(received[i], sent[i].frame)
    /\ ~desync => Len(wire) = OctetsFrom(Len(received) + 1)
    /\ (codecRes.op = "ReadFrame" /\ codecRes.err = NilError) =>
          codecRes.consumed = FrameOctets(sent[Len(received)])
    /\ desync =>
          /\ Len(received) < Len(sent)
          /\ codecRes.err = ErrPayloadTooLarge
          /\ sent[Len(received) + 1].frame.PayloadLen > maxPayloadSize

\* two frames were read back in order: a masked frame with an empty payload
\* and then a different frame, the stream being empty afterwards
C10_Witness ==
    /\ ~desync
    /\ Len(received) = 2
    /\ received[1].Masked /\ received[1].PayloadLen = 0
    /\ received[2].PayloadLen > 0
    /\ codecRes.op = "ReadFrame"
    /\ wire = << >>

(***************************************************************************)
(* Properties of ReadFrame on a failing source, checked under SpecSource   *)
(***************************************************************************)
\* the offsets at which the read steps of a frame's octets begin: the fixed
\* header, the extended length, the masking key, the payload
StepStarts(d) ==
    LET ext == IF d.enc = 16 THEN 2 ELSE IF d.enc = 64 THEN 8 ELSE 0
        key == IF d.frame.Masked THEN 4 ELSE 0
    IN {0} \cup (IF ext > 0 THEN {2} ELSE {})
           \cup (IF key > 0 THEN {2 + ext} ELSE {})
           \cup (IF d.frame.PayloadLen > 0 THEN {2 + ext + key} ELSE {})

\* C12: when the source ends or fails before the octets of the frame are
\* complete, ReadFrame returns nil and the error of the read step that could
\* not be completed, as it is: the transport's error, io.EOF when the source
\* ended where the step began, io.ErrUnexpectedEOF when it ended inside the
\* step; it has taken the octets delivered before the failure and none after
\* it (no second attempt), and no Frame, not even a partly filled one, comes
\* back.
C12_ReadIOError ==
    (codecRes.op = "ReadFrame" /\ codecRes.src = "Source"
        /\ codecRes.avail < FrameOctets(codecRes)) =>
          /\ codecRes.isNil
          /\ codecRes.out = ZeroFrame
          /\ codecRes.err = (IF fault # NoFault THEN fault.err
                              ELSE IF codecRes.avail \in StepStarts(codecRes) THEN ErrEOF
                              ELSE ErrUnexpectedEOF)
          /\ codecRes.consumed = codecRes.avail
          /\ Len(wire) = (IF fault # NoFault THEN FrameOctets(codecRes) ELSE codecRes.avail)
                             - codecRes.avail

\* the transport failed inside the payload of a masked frame with a 16-bit
\* length, after the header, the length and the key had been read
C12_Witness ==
    /\ codecRes.op = "ReadFrame" /\ codecRes.src = "Source"
    /\ fault # NoFault /\ fault.err = ErrClosedPipe
    /\ codecRes.frame.Masked /\ codecRes.enc = 16 /\ codecRes.frame.PayloadLen = 4
    /\ codecRes.avail = 10
    /\ codecRes.isNil /\ codecRes.err = ErrClosedPipe
    /\ Len(wire) = 2

(***************************************************************************)
(* Properties of WriteFrame on a shared or failing sink, checked under     *)
(* SpecSink                                                                *)
(***************************************************************************)
NoWriteFailed ==
    \A g \in Goroutines : writers[g].hdrErr = NilError /\ writers[g].payErr = NilError

\* C11: WriteFrame hands header and payload to the sink together, so with
\* two WriteFrame calls running at once on a sink whose Write is atomic and
\* does not fail, the header of a frame that has a payload is never followed
\* on the sink by octets of the other call's frame.
C11_NoInterleaving ==
    NoWriteFailed =>
        \A i \in 1..(Len(sink) - 1) :
            (sink[i].part = "header" /\ writers[sink[i].who].arg.PayloadLen > 0) =>
                sink[i + 1].who = sink[i].who

\* C13: when writer.Write fails on the header, WriteFrame returns that error
\* as it is and makes no Write call for the payload; when it fails on the
\* payload, WriteFrame returns that error as it is; no Write is made a second
\* time.
C13_WriteIOError ==
    \A g \in Goroutines :
        /\ writers[g].hdrWrites <= 1
        /\ writers[g].payWrites <= 1
        /\ writers[g].hdrErr # NilError =>
              /\ writers[g].pc = "returned"
              /\ writers[g].err = writers[g].hdrErr
              /\ writers[g].hdrWrites = 1
              /\ writers[g].payWrites = 0
              /\ \A i \in 1..Len(sink) : sink[i].who = g => sink[i].part = "header"
        /\ writers[g].payErr # NilError =>
              /\ writers[g].pc = "returned"
              /\ writers[g].err = writers[g].payErr
              /\ writers[g].hdrWrites = 1
              /\ writers[g].payWrites = 1
        /\ (writers[g].pc = "returned" /\ writers[g].hdrWrites = 1
                /\ writers[g].hdrErr = NilError /\ writers[g].payErr = NilError) =>
              /\ writers[g].err = NilError
              /\ writers[g].payWrites = (IF writers[g].arg.PayloadLen > 0 THEN 1 ELSE 0)

\* one call failed on the header of a frame that has a payload, the other
\* on its payload after the header was taken
C13_Witness ==
    /\ writers["g1"].pc = "returned" /\ writers["g1"].hdrErr = ErrClosedPipe
    /\ writers["g1"].arg.PayloadLen > 0 /\ writers["g1"].err = ErrClosedPipe
    /\ writers["g2"].pc = "returned" /\ writers["g2"].payErr = ErrClosedPipe
    /\ writers["g2"].hdrErr = NilError /\ writers["g2"].err = ErrClosedPipe

\* C14: WriteFrame leaves the caller's Frame as it was, whether it returns
\* nil, a validation error or a write error; the payload octets it hands to
\* the writer are payload[i] XOR masking_key[i mod 4] for a masked frame and
\* the payload itself otherwise.
C14_InputNotMutated ==
    /\ \A g \in Goroutines : writers[g].pc # "idle" => writers[g].frame = writers[g].arg
    /\ \A i \in 1..Len(sink) :
          sink[i].part = "payload" =>
              LET f == writers[sink[i].who].arg IN
              \A k \in 1..Len(sink[i].octets) :
                  sink[i].octets[k] =
                      IF f.Masked THEN BitXor(f.Payload[k], f.MaskingKey[((k - 1) % 4) + 1])
                      ELSE f.Payload[k]

\* a masked frame was written whole, and the caller still holds the payload
\* in the clear
C14_Witness ==
    /\ writers["g1"].pc = "returned" /\ writers["g1"].err = NilError
    /\ writers["g1"].arg.Masked /\ writers["g1"].arg.Payload = Hello
    /\ writers["g1"].frame.Payload = Hello
    /\ \E i \in 1..Len(sink) :
          /\ sink[i].who = "g1" /\ sink[i].part = "payload"
          /\ sink[i].octets = <<127, 159, 77, 81, 88>>

(***************************************************************************)
(* Further properties of the frame codec, checked under SpecCodec          *)
(***************************************************************************)
\* C15: WriteFrame writes payload_len 0..125 into the second octet itself,
\* 126..65535 as 126 followed by 2 octets, most significant first, and
\* anything above as 127 followed by 8 octets, most significant first; bit 7
\* of the second octet is the mask bit whichever form is used.
C15_LengthMinimalOnWrite ==
    (codecRes.op = "WriteFrame" /\ codecRes.err = NilError) =>
        LET n == codecRes.frame.PayloadLen
            key == IF codecRes.frame.Masked THEN 4 ELSE 0
        IN
        /\ wire[2] \div 128 = (IF codecRes.frame.Masked THEN 1 ELSE 0)
        /\ n <= 125 => (wire[2] % 128 = n /\ Len(wire) = 2 + key + n)
        /\ (n >= 126 /\ n <= 65535) =>
              /\ wire[2] % 128 = 126
              /\ wire[3] * 256 + wire[4] = n
              /\ Len(wire) = 4 + key + n
        /\ n > 65535 =>
              /\ wire[2] % 128 = 127
              /\ \A i \in 3..6 : wire[i] = 0
              /\ ((wire[7] * 256 + wire[8]) * 256 + wire[9]) * 256 + wire[10] = n
              /\ Len(wire) = 10 + key + n

\* a masked frame of 126 payload octets was written with the 16-bit form
C15_Witness ==
    /\ codecRes.op = "WriteFrame" /\ codecRes.err = NilError
    /\ codecRes.frame.Masked /\ codecRes.frame.PayloadLen = 126
    /\ SubSeq(wire, 2, 4) = <<254, 0, 126>>
    /\ Len(wire) = 134

\* the structural rules of a frame: a control frame is whole and carries at
\* most 125 octets, and any frame carries as many octets as it declares
BreaksStructure(f) ==
    \/ f.Opcode \in ControlOpcodes /\ f.PayloadLen > 125
    \/ f.Opcode \in ControlOpcodes /\ ~f.FIN
    \/ Len(f.Payload) # f.PayloadLen

\* C32: Frame.Validate reports the first failing check in the order opcode,
\* reserved bits, control payload size, control fragmentation, payload/length
\* mismatch: ErrInvalidOpcode for an unrecognized opcode whatever the other
\* fields, ErrReservedBitsSet for a recognized opcode with a reserved bit set,
\* ErrInvalidFrameStructure when those pass and a structural rule is broken,
\* nil otherwise; the caller's frame is as it was.
C32_ValidateOrder ==
    codecRes.op = "WriteFrame" =>
        LET f == codecRes.frame
            expected ==
                IF f.Opcode \notin RecognizedOpcodes THEN ErrInvalidOpcode
                ELSE IF AnyRsv(f) THEN ErrReservedBitsSet
                ELSE IF BreaksStructure(f) THEN ErrInvalidFrameStructure
                ELSE NilError
        IN
        /\ Validate(f) = expected
        /\ codecRes.err = expected
        /\ WriteFrame(f).frame = f

\* a frame failing the opcode, reserved-bit and control-size checks at once
\* was refused for its opcode
C32_Witness ==
    /\ codecRes.op = "WriteFrame"
    /\ codecRes.frame.Opcode = 11
    /\ codecRes.frame.RSV1
    /\ ~codecRes.frame.FIN
    /\ codecRes.frame.PayloadLen = 126
    /\ codecRes.err = ErrInvalidOpcode

\* C33: wire layout on write: for every valid frame WriteFrame emits, in this
\* order, octet 0 = opcode | fin<<7 | rsv1<<6 | rsv2<<5 | rsv3<<4, the length
\* field with the mask bit, the 4 masking-key octets only when masked, then
\* exactly payload_len payload octets, XOR-masked when masked; unmasked Text
\* "Hello" gives 81 05 'H' 'e' 'l' 'l' 'o', and masked with key 37 FA 21 3D
\* it gives 81 85 37 FA 21 3D 7F 9F 4D 51 58.
C33_WireLayout ==
    (codecRes.op = "WriteFrame" /\ StructurallyValid(codecRes.frame)) =>
        LET f == codecRes.frame
            n == f.PayloadLen
            ext == IF n <= 125 THEN 0 ELSE IF n <= 65535 THEN 2 ELSE 8
            key == IF f.Masked THEN 4 ELSE 0
            lenBits == IF n <= 125 THEN n ELSE IF n <= 65535 THEN 126 ELSE 127
        IN
        /\ codecRes.err = NilError
        /\ wire = Flatten(codecRes.writes)
        /\ Len(wire) = 2 + ext + key + n
        /\ wire[1] = f.Opcode + (IF f.FIN THEN 128 ELSE 0) + (IF f.RSV1 THEN 64 ELSE 0)
                        + (IF f.RSV2 THEN 32 ELSE 0) + (IF f.RSV3 THEN 16 ELSE 0)
        /\ wire[2] = (IF f.Masked THEN 128 ELSE 0) + lenBits
        /\ ext > 0 => BigEndianUint(SubSeq(wire, 3, 2 + ext)) = n
        /\ f.Masked => SubSeq(wire, 3 + ext, 6 + ext) = f.MaskingKey
        /\ \A k \in 1..n :
              wire[2 + ext + key + k] =
                  IF f.Masked THEN BitXor(f.Payload[k], f.MaskingKey[((k - 1) % 4) + 1])
                  ELSE f.Payload[k]
        /\ (f = MkFrame(TRUE, NoRsv, OpcodeText, <<FALSE, ZeroKey>>, 5, Hello)) =>
              wire = <<129, 5, 72, 101, 108, 108, 111>>
        /\ (f = MkFrame(TRUE, NoRsv, OpcodeText, <<TRUE, <<55, 250, 33, 61>> >>, 5, Hello)) =>
              wire = <<129, 133, 55, 250, 33, 61, 127, 159, 77, 81, 88>>

\* the masked "Hello" of the example is on the wire
C33_Witness ==
    /\ codecRes.op = "WriteFrame"
    /\ codecRes.frame = MkFrame(TRUE, NoRsv, OpcodeText, <<TRUE, <<55, 250, 33, 61>> >>, 5, Hello)
    /\ codecRes.err = NilError
    /\ wire = <<129, 133, 55, 250, 33, 61, 127, 159, 77, 81, 88>>

\* the errors of the domain package
DomainErrors ==
    {ErrInvalidFrameStructure, ErrInvalidOpcode, ErrReservedBitsSet, ErrPayloadTooLarge,
     ErrUnmaskedClientFrame, ErrMaskedServerFrame, ErrInvalidState,
     ErrInvalidMessageType, ErrEmptyPayload}

\* C34: the codec does not assert masking direction: ReadFrame accepts
\* structurally valid frames with the mask bit clear as well as set, WriteFrame
\* emits frames with masked = true as well as false, neither ever returns
\* ErrUnmaskedClientFrame or ErrMaskedServerFrame, and the only domain errors
\* ReadFrame returns are ErrInvalidOpcode, ErrReservedBitsSet,
\* ErrPayloadTooLarge and ErrInvalidFrameStructure.
C34_NoDirectionCheck ==
    /\ codecRes.op \in {"ReadFrame", "WriteFrame"} =>
          codecRes.err \notin {ErrUnmaskedClientFrame, ErrMaskedServerFrame}
    /\ (codecRes.op = "ReadFrame" /\ codecRes.err \in DomainErrors) =>
          codecRes.err \in {ErrInvalidOpcode, ErrReservedBitsSet,
                            ErrPayloadTooLarge, ErrInvalidFrameStructure}
    /\ (/\ codecRes.op = "ReadFrame"
        /\ StructurallyValid(codecRes.frame)
        /\ codecRes.frame.PayloadLen <= maxPayloadSize) =>
          /\ codecRes.err = NilError
          /\ codecRes.out.Masked = codecRes.frame.Masked
    /\ (codecRes.op = "WriteFrame" /\ StructurallyValid(codecRes.frame)) =>
          /\ codecRes.err = NilError
          /\ wire[2] \div 128 = (IF codecRes.frame.Masked THEN 1 ELSE 0)

\* an unmasked Text frame sent by a peer was read without error
C34_Witness ==
    /\ codecRes.op = "ReadFrame"
    /\ codecRes.src = "PeerSend"
    /\ ~codecRes.frame.Masked
    /\ codecRes.frame.Opcode = OpcodeText
    /\ codecRes.frame.PayloadLen = 5
    /\ codecRes.err = NilError
    /\ ~codecRes.isNil
    /\ ~codecRes.out.Masked

(***************************************************************************)
(* Properties of UnmaskPayload, checked under SpecMask                     *)
(***************************************************************************)
\* C20: one application of UnmaskPayload turns buffer[i] into buffer[i] XOR
\* key[i mod 4] and keeps the length; a second application with the same key
\* gives back the buffer as it was, for every length, 0 and the lengths
\* that are not multiples of 4 included.
C20_UnmaskInvolution ==
    /\ Len(mask.buf) = Len(mask.orig)
    /\ mask.applied % 2 = 0 => mask.buf = mask.orig
    /\ mask.applied % 2 = 1 =>
          \A i \in 1..Len(mask.orig) :
              mask.buf[i] = BitXor(mask.orig[i], mask.key[((i - 1) % 4) + 1])

\* a buffer of 3 octets was masked with a key that changes it, and masked
\* again
C20_Witness ==
    /\ mask.applied = 2
    /\ mask.orig = <<90, 0, 255>>
    /\ mask.key = KeyA
    /\ mask.buf = <<90, 0, 255>>

(***************************************************************************)
(* Properties of the handshake, checked under SpecHandshake and            *)
(* SpecAcceptKey                                                           *)
(***************************************************************************)
\* ASCII case folding, the case-insensitivity of HTTP tokens
AsciiLower(str) == [i \in 1..Len(str) |-> IF str[i] >= 65 /\ str[i] <= 90 THEN str[i] + 32
                                          ELSE str[i]]

\* the value of a request's header: that of its first line, "" without one
ValueOf(req, name) == IF req[name] = << >> THEN << >> ELSE req[name][1]

UpgradeValid(req) ==
    << >> \o AsciiLower(ValueOf(req, HeaderUpgrade)) = HeaderValueWebSocket
ConnectionValid(req) ==
    \E i \in 1..Len(SplitComma(ValueOf(req, HeaderConnection))) :
        << >> \o AsciiLower(TrimSpace(SplitComma(ValueOf(req, HeaderConnection))[i]))
            = << >> \o AsciiLower(HeaderValueUpgrade)
KeyValid(req) == ValueOf(req, HeaderSecWebSocketKey) # << >>
VersionValid(req) == ValueOf(req, HeaderSecWebSocketVersion) = WebSocketVersion

\* C16: ValidateRequest returns nil exactly for the requests whose Upgrade
\* is "websocket" in any letter case, whose Connection has the token
\* "Upgrade" in its comma-separated list, whose Sec-WebSocket-Key is not
\* empty and whose Sec-WebSocket-Version is "13"; every other request, with
\* a header missing or an invalid Upgrade, Connection or Version, gets an
\* error.
C16_HandshakeCompleteness ==
    hs.op = "ValidateRequest" =>
        (hs.err = NilError <=>
            (/\ UpgradeValid(hs.req) /\ ConnectionValid(hs.req)
             /\ KeyValid(hs.req) /\ VersionValid(hs.req)))

\* the response header `name` is set, once, to `value`
ResponseHas(w, name, value) ==
    {e \in w.header : e.name = name} = {[name |-> name, value |-> value]}

\* C17: for a request ValidateRequest accepts, PerformUpgrade returns nil,
\* calls WriteHeader once, with 101, has set Upgrade: websocket, Connection:
\* Upgrade and Sec-WebSocket-Accept to the accept key of the request's
\* Sec-WebSocket-Key, and writes no body.
C17_UpgradeResponse ==
    (hs.op = "PerformUpgrade" /\ ValidateRequest(hs.req) = NilError) =>
        /\ hs.err = NilError
        /\ hs.w.statuses = <<StatusSwitchingProtocols>>
        /\ ResponseHas(hs.w, HeaderUpgrade, HeaderValueWebSocket)
        /\ ResponseHas(hs.w, HeaderConnection, HeaderValueUpgrade)
        /\ ResponseHas(hs.w, HeaderSecWebSocketAccept,
                       GenerateAcceptKey(ValueOf(hs.req, HeaderSecWebSocketKey)))
        /\ hs.w.body = << >>

\* the request "Upgrade: WebSocket", "Connection: keep-alive, Upgrade" with
\* the sample key was answered with 101 and "s3pPLMBiTxaQ9kYGzzhZRbK+xOo="
C17_Witness ==
    /\ hs.op = "PerformUpgrade"
    /\ hs.req[HeaderUpgrade] = <<<<87, 101, 98, 83, 111, 99, 107, 101, 116>>>>
    /\ hs.req[HeaderConnection] = <<<<107, 101, 101, 112, 45, 97, 108, 105, 118, 101, 44, 32, 85, 112, 103, 114, 97, 100, 101>>>>
    /\ hs.req[HeaderSecWebSocketKey] = <<SampleKey>>
    /\ hs.err = NilError
    /\ hs.w.statuses = <<101>>
    /\ ResponseHas(hs.w, HeaderSecWebSocketAccept,
                   <<115, 51, 112, 80, 76, 77, 66, 105, 84, 120, 97, 81, 57, 107, 89, 71, 122, 122, 104, 90, 82, 98, 75, 43, 120, 79, 111, 61>>)

\* C18: for a request ValidateRequest refuses, PerformUpgrade writes status
\* 400 and a reason as the body, returns the error ValidateRequest returned,
\* does not write 101 and sets none of Sec-WebSocket-Accept, Upgrade and
\* Connection; every PerformUpgrade call writes one status, 101 or 400.
C18_BadRequestResponse ==
    hs.op = "PerformUpgrade" =>
        /\ Len(hs.w.statuses) = 1
        /\ hs.w.statuses[1] \in {StatusSwitchingProtocols, StatusBadRequest}
        /\ ValidateRequest(hs.req) # NilError =>
              /\ hs.w.statuses = <<StatusBadRequest>>
              /\ hs.err = ValidateRequest(hs.req)
              /\ Len(hs.w.body) = 1
              /\ SubSeq(hs.w.body[1], 1, 1 + Len(hs.err.msg))
                    = <<"Bad Request: ">> \o hs.err.msg
              /\ \A e \in hs.w.header :
                    e.name \notin {HeaderSecWebSocketAccept, HeaderUpgrade, HeaderConnection}

\* a request valid but for its version "12" was answered with 400 and the
\* error about the version
C18_Witness ==
    /\ hs.op = "PerformUpgrade"
    /\ hs.req[HeaderUpgrade] = <<HeaderValueWebSocket>>
    /\ hs.req[HeaderConnection] = <<HeaderValueUpgrade>>
    /\ hs.req[HeaderSecWebSocketKey] = <<SampleKey>>
    /\ hs.req[HeaderSecWebSocketVersion] = <<<<49, 50>>>>
    /\ hs.w.statuses = <<400>>
    /\ hs.err.msg[1] = "unsupported WebSocket version: expected '%s', got '%s'"

\* the four checks, each taken alone as ValidateRequest makes it, and the
\* words an error about it begins with
UpgradeCheckFails(req) == ~EqualFold(ValueOf(req, HeaderUpgrade), HeaderValueWebSocket)
ConnectionCheckFails(req) ==
    \A t \in 1..Len(SplitComma(ValueOf(req, HeaderConnection))) :
        ~EqualFold(TrimSpace(SplitComma(ValueOf(req, HeaderConnection))[t]), HeaderValueUpgrade)
KeyCheckFails(req) == ValueOf(req, HeaderSecWebSocketKey) = << >>
VersionCheckFails(req) == ValueOf(req, HeaderSecWebSocketVersion) # <<49, 51>>

FirstFailingCheck(req) ==
    IF UpgradeCheckFails(req) THEN "Upgrade"
    ELSE IF ConnectionCheckFails(req) THEN "Connection"
    ELSE IF KeyCheckFails(req) THEN "Key"
    ELSE IF VersionCheckFails(req) THEN "Version"
    ELSE "none"

ErrorAbout(check, req) ==
    CASE check = "Upgrade" ->
            <<"missing or invalid Upgrade header: expected 'websocket', got '%s'",
              ValueOf(req, HeaderUpgrade)>>
      [] check = "Connection" ->
            <<"missing or invalid Connection header: expected 'Upgrade', got '%s'",
              ValueOf(req, HeaderConnection)>>
      [] check = "Key" -> <<"missing Sec-WebSocket-Key header">>
      [] check = "Version" ->
            <<"unsupported WebSocket version: expected '%s', got '%s'",
              <<49, 51>>, ValueOf(req, HeaderSecWebSocketVersion)>>
      [] OTHER -> << >>

\* C30: ValidateRequest evaluates Upgrade, then Connection, then
\* Sec-WebSocket-Key, then Sec-WebSocket-Version and stops at the first
\* failure: for a request failing several checks the error returned, and the
\* reason PerformUpgrade writes with the 400, describe the earliest failing
\* check in that order and no later one.
C30_HandshakeCheckOrder ==
    hs.op \in {"ValidateRequest", "PerformUpgrade"} =>
        LET first == FirstFailingCheck(hs.req) IN
        /\ (hs.err = NilError) <=> (first = "none")
        /\ hs.err.msg = ErrorAbout(first, hs.req)
        /\ (hs.op = "PerformUpgrade" /\ first # "none") =>
              hs.w.body = <<(<<"Bad Request: ">> \o ErrorAbout(first, hs.req)) \o <<"\n">>>>

\* a request failing all four checks was answered with 400 and the words
\* about its Upgrade header
C30_Witness ==
    /\ hs.op = "PerformUpgrade"
    /\ hs.req[HeaderUpgrade] = <<<<104, 50, 99>>>>
    /\ ConnectionCheckFails(hs.req)
    /\ hs.req[HeaderConnection] # << >>
    /\ hs.req[HeaderSecWebSocketKey] = << >>
    /\ hs.req[HeaderSecWebSocketVersion] = <<<<49, 50>>>>
    /\ hs.w.statuses = <<400>>
    /\ hs.err.msg[1] = "missing or invalid Upgrade header: expected 'websocket', got '%s'"
    /\ hs.err.msg[2] = <<104, 50, 99>>

\* the message of the error ValidateRequest returned names this check
FailedAt(check) ==
    /\ hs.err # NilError
    /\ hs.err.msg = ErrorAbout(check, hs.req)

KnownAcceptKeys ==
    {[key |-> SampleKey,
      accept |-> <<115, 51, 112, 80, 76, 77, 66, 105, 84, 120, 97, 81, 57, 107, 89, 71, 122, 122, 104, 90, 82, 98, 75, 43, 120, 79, 111, 61>>],
     [key |-> << >>,
      accept |-> <<75, 102, 104, 57, 81, 73, 115, 77, 86, 90, 99, 108, 54, 120, 69, 80, 89, 120, 80, 72, 122, 87, 56, 83, 90, 56, 119, 61>>],
     [key |-> <<97>>,
      accept |-> <<70, 116, 103, 72, 56, 113, 113, 102, 69, 75, 72, 118, 90, 75, 69, 90, 89, 69, 87, 107, 89, 68, 104, 108, 88, 78, 89, 61>>]}

\* C19: GenerateAcceptKey gives the same result for the same key on every
\* call and different results for different keys; the result has 28
\* characters, 27 of the base64 alphabet and a final "="; for the sample key
\* "dGhlIHNhbXBsZSBub25jZQ==" it is "s3pPLMBiTxaQ9kYGzzhZRbK+xOo=".
C19_AcceptKey ==
    /\ \A i \in 1..Len(hs.calls) :
          /\ Len(hs.calls[i].accept) = 28
          /\ \A k \in 1..27 :
                \E a \in 1..64 : hs.calls[i].accept[k] = Base64Alphabet[a]
          /\ hs.calls[i].accept[28] = 61
          /\ \A known \in KnownAcceptKeys :
                hs.calls[i].key = known.key => hs.calls[i].accept = known.accept
    /\ \A i, j \in 1..Len(hs.calls) :
          hs.calls[i].key = hs.calls[j].key <=> hs.calls[i].accept = hs.calls[j].accept

\* the accept key of the sample key was computed twice
C19_Witness ==
    /\ Len(hs.calls) = 2
    /\ hs.calls[1].key = SampleKey /\ hs.calls[2].key = SampleKey
    /\ hs.calls[1].accept = hs.calls[2].accept
    /\ hs.calls[2].accept = <<115, 51, 112, 80, 76, 77, 66, 105, 84, 120, 97, 81, 57, 107, 89, 71, 122, 122, 104, 90, 82, 98, 75, 43, 120, 79, 111, 61>>

(***************************************************************************)
(* Properties of messages and server frames, checked under SpecMessage     *)
(***************************************************************************)
\* the octets of the extended length field for a payload of n octets
ExtLenOctets(n) == IF n <= 125 THEN 0 ELSE IF n <= 65535 THEN 2 ELSE 8

\* C21: for every opcode and payload, NewFrame returns a frame with
\* Masked = false, FIN = true, the three reserved bits false and
\* PayloadLen = len(payload); whenever WriteFrame accepts such a frame, bit 7
\* of the second octet written is 0 and no masking key is written: the
\* octets are the two header octets, the extended length and the payload.
C21_ServerNoMask ==
    /\ msgFlow.pc \in {"frame", "written", "read"} =>
          /\ ~msgFlow.frame.Masked
          /\ msgFlow.frame.FIN
          /\ ~msgFlow.frame.RSV1 /\ ~msgFlow.frame.RSV2 /\ ~msgFlow.frame.RSV3
          /\ msgFlow.frame.Opcode = msgFlow.opcode
          /\ msgFlow.frame.PayloadLen = Len(msgFlow.payload)
          /\ msgFlow.frame.Payload = msgFlow.payload
    /\ (msgFlow.pc \in {"written", "read"} /\ msgFlow.werr = NilError) =>
          LET octets == Flatten(msgFlow.writes)
              n == Len(msgFlow.payload)
          IN /\ Len(octets) = 2 + ExtLenOctets(n) + n
             /\ octets[2] < 128
             /\ SubSeq(octets, 3 + ExtLenOctets(n), Len(octets)) = msgFlow.payload

\* a Ping made by NewFrame with a payload was written
C21_Witness ==
    /\ msgFlow.pc = "written"
    /\ msgFlow.werr = NilError
    /\ msgFlow.opcode = OpcodePing
    /\ msgFlow.payload = Hello
    /\ Flatten(msgFlow.writes)[2] = 5

\* C22: Message.Validate returns ErrInvalidMessageType exactly when the
\* message's kind is neither Text nor Binary, and nil for every Text or
\* Binary message whatever its payload, the empty one included;
\* ErrEmptyPayload is never returned.
C22_MessageValidate ==
    msgFlow.validated =>
        /\ (msgFlow.verr = ErrInvalidMessageType) <=>
               (msgFlow.m.Type \notin {MessageTypeText, MessageTypeBinary})
        /\ (msgFlow.m.Type \in {MessageTypeText, MessageTypeBinary}) =>
               msgFlow.verr = NilError
        /\ msgFlow.verr # ErrEmptyPayload

\* a Text message without payload passed Validate
C22_Witness ==
    /\ msgFlow.validated
    /\ msgFlow.m.Type = MessageTypeText
    /\ msgFlow.m.Payload = << >>
    /\ msgFlow.verr = NilError

\* C23: ToOpcode returns 0x1 for a Text message and 0x2 for a Binary one,
\* and the frame NewFrame(msg.ToOpcode(), payload), written by WriteFrame
\* and read back by ReadFrame, carries opcode Text for a Text message and
\* Binary for a Binary message, for every payload within the size limit.
C23_KindToOpcode ==
    LET m == msgFlow.m
        expected == IF m.Type = MessageTypeText THEN 1 ELSE 2
    IN
    (m.Type \in {MessageTypeText, MessageTypeBinary}) =>
        /\ msgFlow.pc \in {"frame", "written", "read"} =>
               /\ msgFlow.opcode = expected
               /\ msgFlow.frame.Opcode = expected
        /\ msgFlow.pc = "written" => msgFlow.werr = NilError
        /\ (msgFlow.pc = "read" /\ Len(m.Payload) <= maxPayloadSize) =>
               /\ msgFlow.rerr = NilError
               /\ ~msgFlow.isNil
               /\ msgFlow.out.Opcode = expected
               /\ msgFlow.out.Payload = m.Payload

\* a Text message of 126 octets came back as a Text frame
C23_Witness ==
    /\ msgFlow.pc = "read"
    /\ msgFlow.m.Type = MessageTypeText
    /\ Len(msgFlow.m.Payload) = 126
    /\ msgFlow.rerr = NilError
    /\ msgFlow.out.Opcode = OpcodeText

\* C36: ToOpcode is total and always yields a sendable data opcode: for every
\* Message, one with an invalid kind tag that Validate rejects included, it
\* returns Text (0x1) or Binary (0x2), Binary for every kind other than Text,
\* never Continuation or a control opcode, so that
\* NewFrame(m.ToOpcode(), m.Payload) passes Frame.Validate for every payload.
C36_ToOpcodeSendable ==
    (msgFlow.pc \in {"frame", "written", "read"} /\ msgFlow.m # NoMessage) =>
        /\ msgFlow.opcode \in {1, 2}
        /\ msgFlow.opcode = 1 <=> msgFlow.m.Type = MessageTypeText
        /\ msgFlow.opcode # 0 /\ msgFlow.opcode < 8
        /\ msgFlow.frame.Opcode = msgFlow.opcode
        /\ msgFlow.frame.Payload = msgFlow.m.Payload
        /\ StructurallyValid(msgFlow.frame)
        /\ Validate(msgFlow.frame) = NilError
        /\ msgFlow.pc \in {"written", "read"} => msgFlow.werr = NilError

\* a message of a kind Validate rejects, with 200 octets, went out as a
\* Binary frame
C36_Witness ==
    /\ msgFlow.pc = "written"
    /\ msgFlow.m.Type = MessageTypeUnknown
    /\ msgFlow.validated /\ msgFlow.verr = ErrInvalidMessageType
    /\ Len(msgFlow.m.Payload) = 200
    /\ msgFlow.opcode = OpcodeBinary
    /\ msgFlow.werr = NilError

(***************************************************************************)
(* Properties of the parser's size limit, checked under SpecLimit          *)
(***************************************************************************)
\* C24: a parser constructed with maxPayloadSize = 0 behaves like one
\* constructed with 1,048,576: ReadFrame accepts a data frame declaring
\* 1,048,576 payload octets and refuses one declaring 1,048,577 with
\* ErrPayloadTooLarge; any other configured value is the limit as given.
C24_DefaultLimit ==
    LET limit == IF codecRes.size = 0 THEN 1048576 ELSE codecRes.size IN
    /\ maxPayloadSize = limit
    /\ codecRes.op = "ReadFrame" =>
          IF codecRes.frame.PayloadLen <= limit
          THEN /\ codecRes.err = NilError
               /\ ~codecRes.isNil
               /\ codecRes.out.PayloadLen = codecRes.frame.PayloadLen
               /\ Len(codecRes.out.Payload) = codecRes.frame.PayloadLen
          ELSE /\ codecRes.err = ErrPayloadTooLarge
               /\ codecRes.isNil

\* a parser constructed with 0 has refused a frame declaring 1,048,577 octets
C24_Witness ==
    /\ codecRes.size = 0
    /\ codecRes.op = "ReadFrame"
    /\ codecRes.frame.PayloadLen = 1048577
    /\ codecRes.err = ErrPayloadTooLarge

====
